---- MODULE Spec2Model ----
(***************************************************************************)
(* A model of the render/diff runtime of kobold: the list reconciliation   *)
(* engine (unbounded Vec-backed, boxed Vec-backed and bounded array-backed *)
(* products) and the thread-local runtime with its Signal / Bound update   *)
(* entry points.                                                           *)
(***************************************************************************)
EXTENDS Integers, Sequences, FiniteSets, TLC

VARIABLES
    variant,    \* which list product the application renders
    ul,         \* list/unbounded.rs  ListProduct
    vl,         \* list.rs            ListProduct (Vec<Box<P>>)
    bl,         \* list/bounded.rs    BoundedProduct
    rl,         \* kobold/src/list.rs  RenderedList
    last,       \* the most recent build/update call: its input and the state it found
    gen,        \* which Signal/Bound implementation the application links
    slot,       \* RUNTIME: the runtime in the thread-local slot, or None
    stack,      \* the calls in progress on the (single) thread, outermost first
    hooks,      \* the Hook of each runtime's root Stateful product
    product,    \* what each runtime's product tree shows
    runtimes,   \* the number of runtimes (root products) built so far
    body,       \* the root nodes appended to the document body
    note,       \* the most recent runtime step: its kind and the state it found
    sp,         \* a StatefulProduct (built through Once) and its Hook
    sl,         \* the most recent step on sp: its kind, the product it found, its effects
    nextId,     \* the event id the next listener product gets
    listeners,  \* the ListenerProducts of a list, in build order
    el,         \* the most recent step on the listeners and what it did
    lmounted,   \* how many of the listeners' products the list has mounted
    br,         \* a BranchK product: the variant it holds, its inner product's value and node
    dom,        \* the node at the branch's place in the document
    bn,         \* the number of host nodes made for the branch so far
    bx,         \* the most recent branch call, its trace, and the renders so far
    dk,         \* which diffing view or Diff implementor is exercised
    dv,         \* its product: the memo and the text of the host node
    dx,         \* the most recent build/update/diff call, its input and its trace
    ll,         \* list/unbounded/list.rs  LinkedList and the heap nodes it links
    lx,         \* the most recent push or iteration, the list before it and what was yielded
    cx,         \* runtime/ctx.rs  the Hooks along one path of the tree, those attached to the EventCtx, and the last lookup
    hk,         \* where the Hook is and the pointers taken to it
    hx,         \* the last use of a pointer to the Hook
    ov,         \* an Option product and a Branch2 product side by side
    ox,         \* their last render
    vv,         \* a Ver<T> and the memo taken of it
    vx,         \* the last access to it
    sv,         \* the dev server: channels, debounce routine, builder thread
    sx          \* its last step

listVars == <<variant, ul, vl, bl, rl, last>>

rtVars == <<gen, slot, stack, hooks, product, runtimes, body, note>>

stVars == <<sp, sl>>

evVars == <<nextId, listeners, el, lmounted>>

brVars == <<br, dom, bn, bx>>

dfVars == <<dk, dv, dx>>

llVars == <<ll, lx>>

cxVars == <<cx>>

plVars == <<hk, hx>>

opVars == <<ov, ox>>

vrVars == <<vv, vx>>

svVars == <<sv, sx>>

vars == <<lmounted, rl, variant, ul, vl, bl, last,
          gen, slot, stack, hooks, product, runtimes, body, note,
          sp, sl, nextId, listeners, el, br, dom, bn, bx, dk, dv, dx, ll, lx, cx, hk, hx, ov, ox, vv, vx, sv, sx>>

(***************************************************************************)
(* Bounds of the model.                                                    *)
(***************************************************************************)
MaxLen == 3

MaxVal == 2

Cap == 2

MaxNodes == 5

MaxDepth == 2

MaxRuntimes == 2

Vals == 1..MaxVal

\* The iterators handed to build/update: every finite sequence of views.
Iters == UNION {[1..n -> Vals] : n \in 0..MaxLen}

Min(a, b) == IF a < b THEN a ELSE b

Max(a, b) == IF a < b THEN b ELSE a

(***************************************************************************)
(* Host surface and the item View/Product protocol.                        *)
(***************************************************************************)

\* Node.before(): insert the node at the fragment's tail; a node that is
\* already a child is moved, not duplicated.
FragmentAppend(fragment, node) ==
    SelectSeq(fragment, LAMBDA x : x # node) \o <<node>>

\* Node.remove()
NodeUnmount(fragment, node) ==
    SelectSeq(fragment, LAMBDA x : x # node)

\* View::build of one item: a fresh host node showing the view's value.
ViewBuild(view, node) == [node |-> node, val |-> view]

\* View::update of one item: the product keeps its node.
ViewUpdate(view, old) == [old EXCEPT !.val = view]

\* The events of one build/update call, in program order.
Ev(kind, pos) == <<kind, pos>>

Count(log, kind) == Cardinality({i \in 1..Len(log) : log[i][1] = kind})

\* Index of the first event (kind, pos) in the log, 0 when there is none.
First(log, kind, pos) ==
    IF \E i \in 1..Len(log) : log[i] = Ev(kind, pos)
    THEN CHOOSE i \in 1..Len(log) :
            /\ log[i] = Ev(kind, pos)
            /\ \A j \in 1..(i - 1) : log[j] # Ev(kind, pos)
    ELSE 0

Nodes(list) == [i \in 1..Len(list) |-> list[i].node]

(***************************************************************************)
(* list/unbounded.rs                                                       *)
(***************************************************************************)

\* Faulty variant: the lockstep walk stops at the mounted products, so retained
\* surplus products are never handed the new view.
RECURSIVE UpdateLoopMountedOnly(_, _, _)
UpdateLoopMountedOnly(s, iter, updated) ==
    IF updated < Min(s.mounted, Len(s.list)) /\ updated < Len(iter)
    THEN UpdateLoopMountedOnly(
            [s EXCEPT !.list[updated + 1] = ViewUpdate(iter[updated + 1], @),
                      !.log = Append(@, Ev("update", updated))],
            iter, updated + 1)
    ELSE [s |-> s, updated |-> updated]

\* while let Some(old) = self.list.get_mut(updated) { let Some(new) = iter.next() ... }
RECURSIVE UpdateLoop(_, _, _)
UpdateLoop(s, iter, updated) ==
    IF updated < Len(s.list) /\ updated < Len(iter)
    THEN UpdateLoop([s EXCEPT !.list[updated + 1] = ViewUpdate(iter[updated + 1], @),
                              !.log = Append(@, Ev("update", updated))],
                    iter, updated + 1)
    ELSE [s |-> s, updated |-> updated]

RECURSIVE UnmountRange(_, _, _)
UnmountRange(s, from, to) ==
    IF from < to
    THEN UnmountRange([s EXCEPT !.fragment = NodeUnmount(@, s.list[from + 1].node),
                                !.log = Append(@, Ev("unmount", from))],
                      from + 1, to)
    ELSE s

RECURSIVE MountRange(_, _, _)
MountRange(s, from, to) ==
    IF from < to
    THEN MountRange([s EXCEPT !.fragment = FragmentAppend(@, s.list[from + 1].node),
                              !.log = Append(@, Ev("append", from))],
                    from + 1, to)
    ELSE s

\* Faulty variant: the surplus products are dropped from storage when unmounted.
UnmountTruncate(s, from) ==
    IF from <= s.mounted /\ s.mounted <= Len(s.list)
    THEN [UnmountRange(s, from, s.mounted) EXCEPT !.mounted = from,
                                                  !.list = SubSeq(s.list, 1, from)]
    ELSE [s EXCEPT !.fault = "ub", !.mounted = from]

\* Faulty variant: every stored product from `from` on is unmounted, mounted or not.
UnmountAll(s, from) ==
    IF from <= s.mounted /\ s.mounted <= Len(s.list)
    THEN [UnmountRange(s, from, Len(s.list)) EXCEPT !.mounted = from]
    ELSE [s EXCEPT !.fault = "ub", !.mounted = from]

\* fn unmount(&mut self, from): get_unchecked(from..self.mounted)
Unmount(s, from) ==
    IF from <= s.mounted /\ s.mounted <= Len(s.list)
    THEN [UnmountRange(s, from, s.mounted) EXCEPT !.mounted = from]
    ELSE [s EXCEPT !.fault = "ub", !.mounted = from]

\* Faulty variant: the nodes are re-attached but the mounted count is not recorded.
MountNoCount(s, to) ==
    IF s.mounted <= to /\ to <= Len(s.list)
    THEN MountRange(s, s.mounted, to)
    ELSE [s EXCEPT !.fault = "ub"]

\* Faulty variant: the mounted count is raised but the nodes are not re-attached.
MountNoAppend(s, to) ==
    IF s.mounted <= to /\ to <= Len(s.list)
    THEN [s EXCEPT !.mounted = to]
    ELSE [s EXCEPT !.fault = "ub", !.mounted = to]

\* fn mount(&mut self, to): get_unchecked(self.mounted..to)
Mount(s, to) ==
    IF s.mounted <= to /\ to <= Len(s.list)
    THEN [MountRange(s, s.mounted, to) EXCEPT !.mounted = to]
    ELSE [s EXCEPT !.fault = "ub", !.mounted = to]

\* The closure of extend: build the view, append its node, store the product.
RECURSIVE ExtendLoop(_, _, _)
ExtendLoop(s, iter, k) ==
    IF k < Len(iter)
    THEN LET built == ViewBuild(iter[k + 1], s.nodes + 1)
         IN  ExtendLoop([s EXCEPT !.nodes = @ + 1,
                                  !.log = @ \o <<Ev("build", Len(s.list)),
                                                 Ev("append", Len(s.list))>>,
                                  !.fragment = FragmentAppend(@, built.node),
                                  !.list = Append(@, built)],
                        iter, k + 1)
    ELSE s

\* fn extend(&mut self, iter); `from` views of iter were consumed before.
Extend(s, iter, from) ==
    LET t == ExtendLoop(s, iter, from)
    IN  [t EXCEPT !.mounted = Len(t.list)]

EmptyProduct ==
    [list |-> <<>>, mounted |-> 0, fragment |-> <<>>, log |-> <<>>,
     nodes |-> 0, fault |-> "none"]

\* ListProduct::build
UnboundedBuild(iter) == Extend(EmptyProduct, iter, 0)

\* Faulty variant: the surplus is mounted up to the iterator's length instead of the
\* number of products walked.
UnboundedUpdateMountIter(p, iter) ==
    LET r == UpdateLoop([p EXCEPT !.log = <<>>], iter, 0)
        s == r.s
        updated == r.updated
    IN  IF updated < s.mounted
        THEN Unmount(s, updated)
        ELSE LET m == Mount(s, Len(iter))
             IN  IF updated = Len(m.list)
                 THEN Extend(m, iter, updated)
                 ELSE m

\* ListProduct::update
UnboundedUpdate(p, iter) ==
    LET r == UpdateLoop([p EXCEPT !.log = <<>>], iter, 0)
        s == r.s
        updated == r.updated
    IN  IF updated < s.mounted
        THEN Unmount(s, updated)
        ELSE LET m == Mount(s, updated)
             IN  IF updated = Len(m.list)
                 THEN Extend(m, iter, updated)
                 ELSE m

(***************************************************************************)
(* list.rs (Vec<Box<P>>)                                                   *)
(***************************************************************************)

\* p.list.extend(new.map(|view| { ...build...; consumed += 1; ... }))
RECURSIVE VecExtendLoop(_, _, _)
VecExtendLoop(s, iter, k) ==
    IF k < Len(iter)
    THEN LET built == ViewBuild(iter[k + 1], s.nodes + 1)
         IN  VecExtendLoop([s EXCEPT !.nodes = @ + 1,
                                     !.log = Append(@, Ev("build", Len(s.list))),
                                     !.list = Append(@, built)],
                           iter, k + 1)
    ELSE s

\* List::build: every view is built and appended, mounted = list.len()
VecBuild(iter) ==
    LET t == ExtendLoop(EmptyProduct, iter, 0)
    IN  [t EXCEPT !.mounted = Len(t.list)]

\* List::update
VecUpdate(p, iter) ==
    LET p0 == [p EXCEPT !.log = <<>>,
                        !.fault = IF p.mounted > Len(p.list) THEN "ub" ELSE @]
        r == UpdateLoop(p0, iter, 0)
        s == r.s
        consumed == r.updated
    IN  IF consumed < s.mounted
        THEN IF s.mounted <= Len(s.list)
             THEN [UnmountRange(s, consumed, s.mounted) EXCEPT !.mounted = consumed]
             ELSE [s EXCEPT !.fault = "panic"]
        ELSE LET e == VecExtendLoop(s, iter, consumed)
                 end == consumed + (Len(e.list) - Len(s.list))
             IN  IF end <= Len(e.list)
                 THEN [MountRange(e, e.mounted, end) EXCEPT !.mounted = end]
                 ELSE [e EXCEPT !.fault = "panic"]

(***************************************************************************)
(* list/bounded.rs                                                         *)
(***************************************************************************)
Uninit == [node |-> 0, val |-> 0]

\* BoundedVec::new
BoundedVecNew == [data |-> [i \in 1..Cap |-> Uninit], len |-> 0]

\* Faulty variant: the capacity test is off by one.
BoundedVecPushOffByOne(v, item) ==
    IF v.len > Cap
    THEN [vec |-> v, ok |-> FALSE]
    ELSE [vec |-> [data |-> [i \in 1..Cap |->
                                IF i = v.len + 1 THEN item ELSE v.data[i]],
                   len |-> v.len + 1],
          ok |-> TRUE]

\* BoundedVec::push
BoundedVecPush(v, item) ==
    IF v.len >= Cap
    THEN [vec |-> v, ok |-> FALSE]
    ELSE [vec |-> [data |-> [v.data EXCEPT ![v.len + 1] = item], len |-> v.len + 1],
          ok |-> TRUE]

\* Deref for BoundedVec: the first len slots as a slice
BoundedVecDeref(v) == [i \in 1..Min(v.len, Cap) |-> v.data[i]]

\* while let Some(old) = self.list.get_mut(updated) { ... }
RECURSIVE BoundedUpdateLoop(_, _, _)
BoundedUpdateLoop(s, iter, updated) ==
    IF updated < s.list.len /\ updated < Len(iter)
    THEN BoundedUpdateLoop(
            [s EXCEPT !.list.data[updated + 1] = ViewUpdate(iter[updated + 1], @),
                      !.log = Append(@, Ev("update", updated))],
            iter, updated + 1)
    ELSE [s |-> s, updated |-> updated]

RECURSIVE BoundedUnmountRange(_, _, _)
BoundedUnmountRange(s, from, to) ==
    IF from < to
    THEN BoundedUnmountRange(
            [s EXCEPT !.fragment = NodeUnmount(@, s.list.data[from + 1].node),
                      !.log = Append(@, Ev("unmount", from))],
            from + 1, to)
    ELSE s

RECURSIVE BoundedMountRange(_, _, _)
BoundedMountRange(s, from, to) ==
    IF from < to
    THEN BoundedMountRange(
            [s EXCEPT !.fragment = FragmentAppend(@, s.list.data[from + 1].node),
                      !.log = Append(@, Ev("append", from))],
            from + 1, to)
    ELSE s

\* BoundedProduct::unmount
BoundedUnmount(s, from) ==
    IF from <= s.mounted /\ s.mounted <= s.list.len
    THEN [BoundedUnmountRange(s, from, s.mounted) EXCEPT !.mounted = from]
    ELSE [s EXCEPT !.fault = "ub", !.mounted = from]

\* BoundedProduct::mount
BoundedMount(s, to) ==
    IF s.mounted <= to /\ to <= s.list.len
    THEN [BoundedMountRange(s, s.mounted, to) EXCEPT !.mounted = to]
    ELSE [s EXCEPT !.fault = "ub", !.mounted = to]

\* BoundedVec::extend over iter.map(closure): the closure builds the view and
\* appends its node to the fragment, then push stores the product or drops it.
RECURSIVE BoundedExtendLoop(_, _, _)
BoundedExtendLoop(s, iter, k) ==
    IF k < Len(iter)
    THEN LET built == ViewBuild(iter[k + 1], s.nodes + 1)
             r == BoundedVecPush(s.list, built)
         IN  BoundedExtendLoop(
                [s EXCEPT !.nodes = @ + 1,
                          !.log = @ \o <<Ev("build", k), Ev("append", k),
                                         Ev(IF r.ok THEN "push" ELSE "drop", k)>>,
                          !.fragment = FragmentAppend(@, built.node),
                          !.list = r.vec],
                iter, k + 1)
    ELSE s

\* Faulty variant: mounted counts the views yielded, not the products stored.
BoundedExtendCountViews(s, iter, from) ==
    LET t == BoundedExtendLoop(s, iter, from)
    IN  [t EXCEPT !.mounted = Max(Len(iter), t.list.len)]

\* BoundedProduct::extend
BoundedExtend(s, iter, from) ==
    LET t == BoundedExtendLoop(s, iter, from)
    IN  [t EXCEPT !.mounted = t.list.len]

EmptyBounded ==
    [list |-> BoundedVecNew, mounted |-> 0, fragment |-> <<>>, log |-> <<>>,
     nodes |-> 0, fault |-> "none"]

\* BoundedProduct::build
BoundedBuild(iter) == BoundedExtend(EmptyBounded, iter, 0)

\* BoundedProduct::update
BoundedUpdate(p, iter) ==
    LET r == BoundedUpdateLoop([p EXCEPT !.log = <<>>], iter, 0)
        s == r.s
        updated == r.updated
    IN  IF updated < s.mounted
        THEN BoundedUnmount(s, updated)
        ELSE LET m == BoundedMount(s, updated)
             IN  IF updated = m.list.len
                 THEN BoundedExtend(m, iter, updated)
                 ELSE m

(***************************************************************************)
(* kobold/src/list.rs: RenderedList, whose `visible` is the mounted count  *)
(* and whose div's children are the fragment.                              *)
(***************************************************************************)

\* Html::render for IterWrapper: every item is rendered, mounted and
\* collected; visible = list.len()
RenderedListRender(iter) == Extend(EmptyProduct, iter, 0)

\* for (old, new) in self.list[i..end].iter_mut().zip(&mut new): the first
\* loop updates the visible products, the second updates and mounts the
\* hidden ones, raising visible.
RECURSIVE RenderedZip(_, _, _, _, _)
RenderedZip(s, iter, i, end, mount) ==
    IF i < end /\ i < Len(iter)
    THEN RenderedZip(
            [s EXCEPT !.list[i + 1] = ViewUpdate(iter[i + 1], @),
                      !.log = @ \o (IF mount THEN <<Ev("update", i), Ev("append", i)>>
                                             ELSE <<Ev("update", i)>>),
                      !.fragment = IF mount THEN FragmentAppend(@, s.list[i + 1].node) ELSE @,
                      !.mounted = IF mount THEN @ + 1 ELSE @],
            iter, i + 1, end, mount)
    ELSE [s |-> s, updated |-> i]

\* Update<IterWrapper<T>> for RenderedList::update
RenderedListUpdate(p, iter) ==
    LET r == RenderedZip([p EXCEPT !.log = <<>>], iter, 0, p.mounted, FALSE)
        s == r.s
        updated == r.updated
    IN  IF s.mounted > updated
        THEN [UnmountRange(s, updated, Len(s.list)) EXCEPT !.mounted = updated]
        ELSE LET m == RenderedZip(s, iter, updated, Len(s.list), TRUE)
                 t == ExtendLoop(m.s, iter, m.updated)
             IN  [t EXCEPT !.mounted = m.s.mounted + (Len(t.list) - Len(m.s.list))]

(***************************************************************************)
(* The list engine as a state machine: the product is built once from the  *)
(* first iterator and updated with a fresh iterator on every render.       *)
(***************************************************************************)
Call(op, iter, len0, mounted0, nodes0) ==
    [op |-> op, iter |-> iter, len0 |-> len0, mounted0 |-> mounted0, nodes0 |-> nodes0]

ListIdle ==
    /\ variant = "none"
    /\ ul = EmptyProduct
    /\ vl = EmptyProduct
    /\ bl = EmptyBounded
    /\ rl = EmptyProduct
    /\ last = Call("none", <<>>, 0, 0, <<>>)

ListBuilt ==
    /\ variant \in {"unbounded", "vec", "bounded", "rendered"}
    /\ \E iter \in Iters :
        /\ ul = IF variant = "unbounded" THEN UnboundedBuild(iter) ELSE EmptyProduct
        /\ vl = IF variant = "vec" THEN VecBuild(iter) ELSE EmptyProduct
        /\ bl = IF variant = "bounded" THEN BoundedBuild(iter) ELSE EmptyBounded
        /\ rl = IF variant = "rendered" THEN RenderedListRender(iter) ELSE EmptyProduct
        /\ last = Call("build", iter, 0, 0, <<>>)

UpdateUnbounded ==
    /\ variant = "unbounded"
    /\ \E iter \in Iters :
        /\ ul' = UnboundedUpdate(ul, iter)
        /\ last' = Call("update", iter, Len(ul.list), ul.mounted, Nodes(ul.list))
    /\ UNCHANGED <<variant, vl, bl, rl>>
    /\ UNCHANGED <<rtVars, stVars, evVars, brVars, dfVars, llVars, cxVars, plVars, opVars, vrVars, svVars>>

UpdateVec ==
    /\ variant = "vec"
    /\ \E iter \in Iters :
        /\ vl' = VecUpdate(vl, iter)
        /\ last' = Call("update", iter, Len(vl.list), vl.mounted, Nodes(vl.list))
    /\ UNCHANGED <<variant, ul, bl, rl>>
    /\ UNCHANGED <<rtVars, stVars, evVars, brVars, dfVars, llVars, cxVars, plVars, opVars, vrVars, svVars>>

UpdateBounded ==
    /\ variant = "bounded"
    /\ \E iter \in Iters :
        /\ BoundedUpdate(bl, iter).nodes <= MaxNodes
        /\ bl' = BoundedUpdate(bl, iter)
        /\ last' = Call("update", iter, bl.list.len, bl.mounted,
                        Nodes(BoundedVecDeref(bl.list)))
    /\ UNCHANGED <<variant, ul, vl, rl>>
    /\ UNCHANGED <<rtVars, stVars, evVars, brVars, dfVars, llVars, cxVars, plVars, opVars, vrVars, svVars>>

UpdateRendered ==
    /\ variant = "rendered"
    /\ \E iter \in Iters :
        /\ rl' = RenderedListUpdate(rl, iter)
        /\ last' = Call("update", iter, Len(rl.list), rl.mounted, Nodes(rl.list))
    /\ UNCHANGED <<variant, ul, vl, bl>>
    /\ UNCHANGED <<rtVars, stVars, evVars, brVars, dfVars, llVars, cxVars, plVars, opVars, vrVars, svVars>>

(***************************************************************************)
(* runtime.rs: the thread-local runtime slot, start, update, and the state *)
(* update entry points (Signal::update, the Bound listener closure).  User *)
(* closures (render, mutator, callback) run between a call step and its    *)
(* return step, and may themselves call into the runtime.                  *)
(***************************************************************************)
None == 0

\* The values the state behind a Hook takes: the initial one and another.
StateVals == {"init", "changed"}

Frame(kind, rt, hook) == [kind |-> kind, rt |-> rt, hook |-> hook]

Top == stack[Len(stack)]

Pop(st) == SubSeq(st, 1, Len(st) - 1)

Running(kind) == Len(stack) > 0 /\ Top.kind = kind

CanCall == gen # "none" /\ Len(stack) < MaxDepth

Starting == Cardinality({i \in 1..Len(stack) : stack[i].kind = "start"})

\* Faulty variant: the runtime is read from the slot but not taken out of it.
UpdateTakeCopy(c) ==
    IF c.slot # None
    THEN [slot |-> c.slot, stack |-> Append(c.stack, Frame("render", c.slot, None))]
    ELSE c

\* fn update(), first half: if let Some(runtime) = rt.take() { (*runtime).update() ...
UpdateTake(c) ==
    IF c.slot # None
    THEN [slot |-> None, stack |-> Append(c.stack, Frame("render", c.slot, None))]
    ELSE c

\* update() that forgets to put the runtime back.
UpdateRestoreDrop(c) ==
    [slot |-> c.slot, stack |-> Pop(c.stack)]

\* fn update(), second half: ... *rt = Some(runtime); }
UpdateRestore(c) ==
    [slot |-> c.stack[Len(c.stack)].rt, stack |-> Pop(c.stack)]

\* runtime::lock_update, first half: take the runtime or reject the call.
LockTake(c, h) ==
    IF c.slot # None
    THEN [slot |-> None, stack |-> Append(c.stack, Frame("locked", c.slot, h))]
    ELSE c

\* runtime::lock_update, second half: render with the held runtime if the
\* closure asked for it, else put the runtime back.
LockRelease(c, then) ==
    LET f == c.stack[Len(c.stack)]
    IN  IF then
        THEN [slot |-> c.slot, stack |-> Append(Pop(c.stack), Frame("render", f.rt, None))]
        ELSE [slot |-> f.rt, stack |-> Pop(c.stack)]

\* if mutator(state).should_render() { update(); }
AfterMutator(c, then) ==
    IF then THEN UpdateTake([c EXCEPT !.stack = Pop(@)])
            ELSE [c EXCEPT !.stack = Pop(@)]

Ctl == [slot |-> slot, stack |-> stack]

\* The frames that hold a runtime taken out of the slot.
Holders(st) == {i \in 1..Len(st) : st[i].kind \in {"render", "locked"}}

\* What has become of the outermost update: a state update was "attempted"
\* while it held the runtime, it has "completed" after such an attempt, and
\* the update that followed has "rerendered".
Outer(op, then) ==
    IF op \in {"signal_update", "listener"} /\ Holders(stack) # {}
    THEN "attempted"
    ELSE IF Len(stack) = 1 /\ (op = "render_return" \/ (op = "locked_return" /\ ~then))
    THEN CASE note.outer = "attempted" -> "completed"
           [] note.outer = "completed" /\ op = "render_return" -> "rerendered"
           [] OTHER -> note.outer
    ELSE note.outer

Note(op, then) ==
    [op |-> op, then |-> then, slot0 |-> slot, stack0 |-> stack,
     product0 |-> product, hooks0 |-> hooks, outer |-> Outer(op, then)]

SetCtl(c) == slot' = c.slot /\ stack' = c.stack

RuntimeIdle ==
    /\ gen = "none"
    /\ slot = None
    /\ stack = <<>>
    /\ hooks = <<>>
    /\ product = <<>>
    /\ runtimes = 0
    /\ body = <<>>
    /\ note = [op |-> "none", then |-> FALSE, slot0 |-> None, stack0 |-> <<>>,
               product0 |-> <<>>, hooks0 |-> <<>>, outer |-> "none"]

RuntimeLinked ==
    /\ gen \in {"runtime", "hook"}
    /\ slot = None
    /\ stack = <<>>
    /\ hooks = <<>>
    /\ product = <<>>
    /\ runtimes = 0
    /\ body = <<>>
    /\ note = [op |-> "none", then |-> FALSE, slot0 |-> None, stack0 |-> <<>>,
               product0 |-> <<>>, hooks0 |-> <<>>, outer |-> "none"]

\* start(render): runs only when the slot holds no runtime.
Start ==
    /\ CanCall
    /\ runtimes + Starting < MaxRuntimes
    /\ IF slot = None
       THEN stack' = Append(stack, Frame("start", None, None))
       ELSE stack' = stack
    /\ UNCHANGED <<gen, slot, hooks, product, runtimes, body>>
    /\ note' = Note("start", FALSE)
    /\ UNCHANGED <<listVars, stVars, evVars, brVars, dfVars, llVars, cxVars, plVars, opVars, vrVars, svVars>>

\* start: the root product is built, appended to the body and the runtime
\* stored in the slot.
StartReturn ==
    /\ Running("start")
    /\ runtimes' = runtimes + 1
    /\ hooks' = Append(hooks, [val |-> "init", alive |-> TRUE])
    /\ product' = Append(product, "init")
    /\ body' = Append(body, runtimes + 1)
    /\ slot' = runtimes + 1
    /\ stack' = Pop(stack)
    /\ UNCHANGED gen
    /\ note' = Note("start_return", FALSE)
    /\ UNCHANGED <<listVars, stVars, evVars, brVars, dfVars, llVars, cxVars, plVars, opVars, vrVars, svVars>>

\* Signal::update (runtime.rs): the mutator is called when the Hook is alive.
SignalUpdate ==
    /\ gen = "runtime" /\ CanCall
    /\ \E h \in 1..runtimes :
        /\ hooks[h].alive
        /\ stack' = Append(stack, Frame("mutator", None, h))
    /\ UNCHANGED <<gen, slot, hooks, product, runtimes, body>>
    /\ note' = Note("signal_update", FALSE)
    /\ UNCHANGED <<listVars, stVars, evVars, brVars, dfVars, llVars, cxVars, plVars, opVars, vrVars, svVars>>

\* The mutator returns its verdict; update() runs when it is should-render.
MutatorReturn ==
    /\ Running("mutator")
    /\ \E v \in StateVals, then \in BOOLEAN :
        /\ hooks' = [hooks EXCEPT ![Top.hook].val = v]
        /\ note' = Note("mutator_return", then)
        /\ SetCtl(AfterMutator(Ctl, then))
    /\ UNCHANGED <<gen, product, runtimes, body>>
    /\ UNCHANGED <<listVars, stVars, evVars, brVars, dfVars, llVars, cxVars, plVars, opVars, vrVars, svVars>>

\* The closure made by Bound::into_listener (runtime.rs), fired by an event.
Listener ==
    /\ gen = "runtime" /\ CanCall
    /\ \E h \in 1..runtimes :
        stack' = Append(stack, Frame("callback", None, h))
    /\ UNCHANGED <<gen, slot, hooks, product, runtimes, body>>
    /\ note' = Note("listener", FALSE)
    /\ UNCHANGED <<listVars, stVars, evVars, brVars, dfVars, llVars, cxVars, plVars, opVars, vrVars, svVars>>

\* The bound callback returns its verdict; update() runs when it is should-render.
CallbackReturn ==
    /\ Running("callback")
    /\ \E v \in StateVals, then \in BOOLEAN :
        /\ hooks' = [hooks EXCEPT ![Top.hook].val = v]
        /\ note' = Note("callback_return", then)
        /\ SetCtl(AfterMutator(Ctl, then))
    /\ UNCHANGED <<gen, product, runtimes, body>>
    /\ UNCHANGED <<listVars, stVars, evVars, brVars, dfVars, llVars, cxVars, plVars, opVars, vrVars, svVars>>

\* Runtime::update returns: the render closure and the product update have
\* run, the runtime goes back into the slot.
RenderReturn ==
    /\ Running("render")
    /\ product' = [product EXCEPT ![Top.rt] = hooks[Top.rt].val]
    /\ SetCtl(UpdateRestore(Ctl))
    /\ UNCHANGED <<gen, hooks, runtimes, body>>
    /\ note' = Note("render_return", FALSE)
    /\ UNCHANGED <<listVars, stVars, evVars, brVars, dfVars, llVars, cxVars, plVars, opVars, vrVars, svVars>>

\* Signal::update (state/hook.rs): the mutator runs under runtime::lock_update.
HookSignalUpdate ==
    /\ gen = "hook" /\ CanCall
    /\ \E h \in 1..runtimes :
        /\ hooks[h].alive
        /\ SetCtl(LockTake(Ctl, h))
    /\ UNCHANGED <<gen, hooks, product, runtimes, body>>
    /\ note' = Note("signal_update", FALSE)
    /\ UNCHANGED <<listVars, stVars, evVars, brVars, dfVars, llVars, cxVars, plVars, opVars, vrVars, svVars>>

\* The closure made by Bound::into_listener (state/hook.rs).
HookListener ==
    /\ gen = "hook" /\ CanCall
    /\ \E h \in 1..runtimes :
        SetCtl(LockTake(Ctl, h))
    /\ UNCHANGED <<gen, hooks, product, runtimes, body>>
    /\ note' = Note("listener", FALSE)
    /\ UNCHANGED <<listVars, stVars, evVars, brVars, dfVars, llVars, cxVars, plVars, opVars, vrVars, svVars>>

\* The closure given to lock_update returns its verdict.
LockedReturn ==
    /\ Running("locked")
    /\ \E v \in StateVals, then \in BOOLEAN :
        /\ hooks' = [hooks EXCEPT ![Top.hook].val = v]
        /\ note' = Note("locked_return", then)
        /\ SetCtl(LockRelease(Ctl, then))
    /\ UNCHANGED <<gen, product, runtimes, body>>
    /\ UNCHANGED <<listVars, stVars, evVars, brVars, dfVars, llVars, cxVars, plVars, opVars, vrVars, svVars>>
(***************************************************************************)
(* Stateful, Hook and Signal: one StatefulProduct built through Once, so a *)
(* Signal to its Hook exists from build on.  The product can be rendered   *)
(* again by its parent, unmounted and mounted again (a list keeps surplus  *)
(* items), and dropped with its parent.                                    *)
(***************************************************************************)
\* self.state.init(): stateful(0_u32, ...)
InitState == 0

\* The values the state of the product takes.
Seconds == 0..MaxVal

\* No product yet: the place of the state holds nothing meaningful.
NoProduct == [phase |-> "unbuilt", val |-> 0, strong |-> 0, inits |-> 0, fault |-> "none"]

\* Stateful::build: Hook::new(self.state.init()), then the render closure is
\* built against the new Hook.
StatefulBuild(p) ==
    [p EXCEPT !.phase = "mounted", !.val = InitState, !.inits = @ + 1, !.strong = 0]

\* Signal::new: the Hook's drop flag is created on first use, the Signal holds
\* a Weak to it.
SignalNew(p) == [p EXCEPT !.strong = 1]

\* Once::build: the inner Stateful is built, the handler gets a new Signal.
OnceBuild(p) == SignalNew(StatefulBuild(p))

\* A Stateful::update that makes a new state.
StatefulUpdateReinit(p) == [p EXCEPT !.val = InitState, !.inits = @ + 1]

\* Stateful::update: (self.render)(&p.state).update(&mut p.product); the Hook
\* is only lent to the render closure.
StatefulUpdate(p) == p

\* Mountable::unmount for StatefulProduct: self.product.unmount(), the host
\* node is removed and nothing else.
StatefulUnmount(p) == [p EXCEPT !.phase = "unmounted"]

\* The list mounts a retained item again: its node goes back into the fragment.
StatefulMount(p) == [p EXCEPT !.phase = "mounted"]

\* The product is dropped with its owner: the Hook goes, and with it the Rc of
\* the drop flag.
ProductDrop(p) == [p EXCEPT !.phase = "dropped", !.strong = 0]

\* A liveness check that lets every Signal through.
SignalLiveAlways(p) == TRUE

\* self.drop_flag.strong_count() == 1
SignalLive(p) == p.strong = 1

\* &mut *(*self.inner).get(): a dangling pointer once the Hook is dropped.
Deref(p) == IF p.phase = "dropped" THEN [p EXCEPT !.fault = "ub"] ELSE p

Effect(p, ran, deref, render) ==
    [sp |-> p, ran |-> ran, deref |-> deref, render |-> render]

\* Signal::update: the mutator runs on the state when the Hook is alive, and
\* its verdict decides whether a render is asked for.
DoUpdate(p, v, then) ==
    IF SignalLive(p)
    THEN Effect([Deref(p) EXCEPT !.val = v], TRUE, TRUE, then)
    ELSE Effect(p, FALSE, FALSE, FALSE)

\* An update_silent that asks for a render.
DoUpdateSilentRenders(p, v) ==
    IF SignalLive(p)
    THEN Effect([Deref(p) EXCEPT !.val = v], TRUE, TRUE, TRUE)
    ELSE Effect(p, FALSE, FALSE, FALSE)

\* Signal::update_silent: as update, and never renders.
DoUpdateSilent(p, v) ==
    IF SignalLive(p)
    THEN Effect([Deref(p) EXCEPT !.val = v], TRUE, TRUE, FALSE)
    ELSE Effect(p, FALSE, FALSE, FALSE)

\* Signal::set: self.update(move |s| *s = val), whose () verdict is should-render.
DoSet(p, v) == DoUpdate(p, v, TRUE)

\* The closure of Bound::into_listener: callback(state, e) on the Hook the
\* listener was bound to.
DoCallback(p, v, then) == Effect([Deref(p) EXCEPT !.val = v], TRUE, TRUE, then)

\* The render a state update asked for reaches the product when its parent
\* renders it, that is while it is mounted.
Rendered(r) ==
    IF r.render /\ r.sp.phase = "mounted" THEN StatefulUpdate(r.sp) ELSE r.sp

Step(op, r) ==
    [op |-> op, sp0 |-> sp, ran |-> r.ran, deref |-> r.deref, render |-> r.render]

Quiet(p) == Effect(p, FALSE, FALSE, FALSE)

StateIdle ==
    /\ sp = NoProduct
    /\ sl = [op |-> "idle", sp0 |-> NoProduct, ran |-> FALSE, deref |-> FALSE, render |-> FALSE]

StateStart ==
    /\ sp = NoProduct
    /\ sl = [op |-> "none", sp0 |-> NoProduct, ran |-> FALSE, deref |-> FALSE, render |-> FALSE]

Built == sl.op # "idle" /\ sp.phase # "unbuilt"

\* Once::build
StBuild ==
    /\ sl.op = "none" /\ sp.phase = "unbuilt"
    /\ sp' = OnceBuild(sp)
    /\ sl' = Step("build", Quiet(sp))
    /\ UNCHANGED <<listVars, rtVars, evVars, brVars, dfVars, llVars, cxVars, plVars, opVars, vrVars, svVars>>

\* The parent renders the product again: Once::update, Stateful::update.
StRender ==
    /\ Built /\ sp.phase = "mounted"
    /\ sp' = StatefulUpdate(sp)
    /\ sl' = Step("render", Quiet(sp))
    /\ UNCHANGED <<listVars, rtVars, evVars, brVars, dfVars, llVars, cxVars, plVars, opVars, vrVars, svVars>>

\* The parent list unmounts the item and keeps it.
StUnmount ==
    /\ Built /\ sp.phase = "mounted"
    /\ sp' = StatefulUnmount(sp)
    /\ sl' = Step("unmount", Quiet(sp))
    /\ UNCHANGED <<listVars, rtVars, evVars, brVars, dfVars, llVars, cxVars, plVars, opVars, vrVars, svVars>>

\* The parent list mounts the retained item again and updates it.
StMount ==
    /\ Built /\ sp.phase = "unmounted"
    /\ sp' = StatefulUpdate(StatefulMount(sp))
    /\ sl' = Step("mount", Quiet(sp))
    /\ UNCHANGED <<listVars, rtVars, evVars, brVars, dfVars, llVars, cxVars, plVars, opVars, vrVars, svVars>>

\* The owner of the product is dropped (a branch changed arm, a list went).
StDrop ==
    /\ Built /\ sp.phase \in {"mounted", "unmounted"}
    /\ sp' = ProductDrop(sp)
    /\ sl' = Step("drop", Quiet(sp))
    /\ UNCHANGED <<listVars, rtVars, evVars, brVars, dfVars, llVars, cxVars, plVars, opVars, vrVars, svVars>>

\* Signal::update (state/hook.rs) from a timer or a future.
StSignalUpdate ==
    /\ Built
    /\ \E v \in Seconds, then \in BOOLEAN :
        LET r == DoUpdate(sp, v, then)
        IN  sp' = Rendered(r) /\ sl' = Step("update", r)
    /\ UNCHANGED <<listVars, rtVars, evVars, brVars, dfVars, llVars, cxVars, plVars, opVars, vrVars, svVars>>

\* Signal::update_silent (state/hook.rs).
StSignalUpdateSilent ==
    /\ Built
    /\ \E v \in Seconds :
        LET r == DoUpdateSilent(sp, v)
        IN  sp' = Rendered(r) /\ sl' = Step("update_silent", r)
    /\ UNCHANGED <<listVars, rtVars, evVars, brVars, dfVars, llVars, cxVars, plVars, opVars, vrVars, svVars>>

\* Signal::set (state/hook.rs).
StSignalSet ==
    /\ Built
    /\ \E v \in Seconds :
        LET r == DoSet(sp, v)
        IN  sp' = Rendered(r) /\ sl' = Step("set", r)
    /\ UNCHANGED <<listVars, rtVars, evVars, brVars, dfVars, llVars, cxVars, plVars, opVars, vrVars, svVars>>

\* Signal::update (runtime.rs).
StRuntimeSignalUpdate ==
    /\ Built
    /\ \E v \in Seconds, then \in BOOLEAN :
        LET r == DoUpdate(sp, v, then)
        IN  sp' = Rendered(r) /\ sl' = Step("signal_update", r)
    /\ UNCHANGED <<listVars, rtVars, evVars, brVars, dfVars, llVars, cxVars, plVars, opVars, vrVars, svVars>>

\* An event reaches a bound listener of the mounted product.
StListener ==
    /\ Built /\ sp.phase = "mounted"
    /\ \E v \in Seconds, then \in BOOLEAN :
        LET r == DoCallback(sp, v, then)
        IN  sp' = Rendered(r) /\ sl' = Step("listener", r)
    /\ UNCHANGED <<listVars, rtVars, evVars, brVars, dfVars, llVars, cxVars, plVars, opVars, vrVars, svVars>>

(***************************************************************************)
(* Event listeners: the ListenerProducts of a list product, the event ids  *)
(* they get at build, and the dispatch of an event by its id.              *)
(***************************************************************************)
\* EventId::next(): the ids are handed out in increasing order.
EventIdNext(n) == [eid |-> n, next |-> n + 1]

\* Listener::build: ListenerProduct { closure: self, eid: EventId::next() }
ListenerBuild(c, n) ==
    LET id == EventIdNext(n)
    IN  [product |-> [closure |-> c, eid |-> id.eid], next |-> id.next]

\* A Listener::update that makes the product anew.
ListenerUpdateResetId(p, c) == [closure |-> c, eid |-> 0]

\* Listener::update: p.closure = self
ListenerUpdate(p, c) == [p EXCEPT !.closure = c]

\* A trigger that calls the closure whatever the id.
ListenerTriggerAny(p, e) == [called |-> TRUE, then |-> "stop"]

\* Trigger for ListenerProduct: the closure is called when the ids are equal.
ListenerTrigger(p, e) ==
    IF e = p.eid
    THEN [called |-> TRUE, then |-> "stop"]
    ELSE [called |-> FALSE, then |-> "none"]

\* Trigger for BoundedProduct: self.list.iter_mut().find_map(|p| p.trigger(ctx))
RECURSIVE FindMap(_, _, _, _)
FindMap(list, e, i, acc) ==
    IF i > Len(list)
    THEN acc
    ELSE LET r == ListenerTrigger(list[i], e)
             seen == [acc EXCEPT !.visited = Append(@, i),
                                 !.called = IF r.called THEN Append(@, i) ELSE @]
         IN  IF r.then # "none"
             THEN [seen EXCEPT !.then = r.then]
             ELSE FindMap(list, e, i + 1, seen)

ListTrigger(list, e) ==
    FindMap(list, e, 1, [visited |-> <<>>, called |-> <<>>, then |-> "none"])

\* runtime::trigger: the product tree is walked for the event id, and the tree
\* is rendered again when the verdict is should-render.
RuntimeTrigger(list, e) ==
    LET r == ListTrigger(list, e)
    IN  [visited |-> r.visited, called |-> r.called, then |-> r.then,
         rerender |-> (r.then = "render")]

EventStep(op, e, r) ==
    [op |-> op, eid |-> e, visited |-> r.visited, called |-> r.called,
     then |-> r.then, rerender |-> r.rerender, listeners0 |-> listeners, next0 |-> nextId]

NoWalk == [visited |-> <<>>, called |-> <<>>, then |-> "none", rerender |-> FALSE]

EventIdle ==
    /\ nextId = 0
    /\ listeners = <<>>
    /\ el = [op |-> "none", eid |-> 0, visited |-> <<>>, called |-> <<>>,
             then |-> "none", rerender |-> FALSE, listeners0 |-> <<>>, next0 |-> 0]
    /\ lmounted = 0

\* The list grows by one item: a listener product is built and mounted
\* (ListProduct::extend, reached when every stored product was updated).
EvBuild ==
    /\ Len(listeners) < MaxLen
    /\ lmounted = Len(listeners)
    /\ nextId < MaxNodes
    /\ \E c \in Vals :
        LET b == ListenerBuild(c, nextId)
        IN  /\ listeners' = Append(listeners, b.product)
            /\ nextId' = b.next
    /\ lmounted' = Len(listeners) + 1
    /\ el' = EventStep("build", nextId, NoWalk)
    /\ UNCHANGED <<listVars, rtVars, stVars, brVars, dfVars, llVars, cxVars, plVars, opVars, vrVars, svVars>>

\* A render updates a listener product with the new closure.
EvUpdate ==
    /\ \E i \in 1..Len(listeners), c \in Vals :
        listeners' = [listeners EXCEPT ![i] = ListenerUpdate(@, c)]
    /\ el' = EventStep("update", 0, NoWalk)
    /\ UNCHANGED <<nextId, lmounted>>
    /\ UNCHANGED <<listVars, rtVars, stVars, brVars, dfVars, llVars, cxVars, plVars, opVars, vrVars, svVars>>

\* The list product is dropped with its owner; the ids it used are gone.
EvDrop ==
    /\ listeners # <<>>
    /\ listeners' = <<>>
    /\ lmounted' = 0
    /\ el' = EventStep("drop", 0, NoWalk)
    /\ UNCHANGED nextId
    /\ UNCHANGED <<listVars, rtVars, stVars, brVars, dfVars, llVars, cxVars, plVars, opVars, vrVars, svVars>>

\* koboldTrigger(event, eid): the host dispatches an event by id.
EvDispatch ==
    /\ \E e \in 0..nextId :
        el' = EventStep("dispatch", e, RuntimeTrigger(listeners, e))
    /\ UNCHANGED <<nextId, listeners, lmounted>>
    /\ UNCHANGED <<listVars, rtVars, stVars, brVars, dfVars, llVars, cxVars, plVars, opVars, vrVars, svVars>>

\* ListProduct::update with an iterator of n items, n at most the number of
\* stored products: unmount(n) when n < mounted, mount(n) otherwise; the
\* products past n stay in the list.
EvMount ==
    /\ \E n \in 0..Len(listeners) :
        /\ n # lmounted
        /\ lmounted' = n
    /\ el' = EventStep("mount", 0, NoWalk)
    /\ UNCHANGED <<nextId, listeners>>
    /\ UNCHANGED <<listVars, rtVars, stVars, brVars, dfVars, llVars, cxVars, plVars, opVars, vrVars, svVars>>

(***************************************************************************)
(* Branching: a BranchK product (branch! macro), rendered again and again  *)
(* with views of any of its variants.                                      *)
(***************************************************************************)
\* The variants of Branch3.
Tags == {"A", "B", "C"}

BranchViews == [tag : Tags, val : Vals]

\* View::build of a branch: $name::$var(view) => $name::$var(view.build())
BranchBuild(view, n) == [tag |-> view.tag, val |-> view.val, node |-> n + 1]

\* Mountable::replace_with of the old product: its node, when it is the one
\* in the document, gives its place to the new node.
ReplaceWith(host, old, new) == IF host = old THEN new ELSE host

Branched(p, host, n, log) == [product |-> p, dom |-> host, nodes |-> n, log |-> log]

\* The calls of the mismatch arm in program order: view.build(), replace(p, ..)
\* which stores the new product and with it the new variant, and
\* old.replace_with(p.js()).
SwitchLog(old, new) ==
    <<Ev("build", new.node), Ev("replace", new.node), Ev("replace_with", old.node)>>

\* An update that unmounts the old product first and changes the variant last;
\* the old node, out of the document, has no place to give to the new one.
BranchUpdateUnmountFirst(view, p, host, n) ==
    IF view.tag = p.tag
    THEN Branched([p EXCEPT !.val = view.val], host, n, <<Ev("update", p.node)>>)
    ELSE LET new == BranchBuild(view, n)
             gone == IF host = p.node THEN 0 ELSE host
         IN  Branched(new, ReplaceWith(gone, p.node, new.node), n + 1,
                      <<Ev("unmount", p.node), Ev("build", new.node),
                        Ev("replace_with", p.node), Ev("replace", new.node)>>)

\* An update that builds and replaces whatever the variant.
BranchUpdateAlwaysReplace(view, p, host, n) ==
    LET new == BranchBuild(view, n)
    IN  Branched(new, ReplaceWith(host, p.node, new.node), n + 1, SwitchLog(p, new))

\* An update that builds and replaces and keeps the old product in place.
BranchUpdateKeepOld(view, p, host, n) ==
    IF view.tag = p.tag
    THEN Branched([p EXCEPT !.val = view.val], host, n, <<Ev("update", p.node)>>)
    ELSE LET new == BranchBuild(view, n)
         IN  Branched(p, ReplaceWith(host, p.node, new.node), n + 1, SwitchLog(p, new))

\* View::update of a branch: the same variant updates the inner product; any
\* other pair builds the view, puts the new product in place of the old one
\* (replace) and calls replace_with on the old one with the new node.
BranchUpdate(view, p, host, n) ==
    IF view.tag = p.tag
    THEN Branched([p EXCEPT !.val = view.val], host, n, <<Ev("update", p.node)>>)
    ELSE LET new == BranchBuild(view, n)
         IN  Branched(new, ReplaceWith(host, p.node, new.node), n + 1, SwitchLog(p, new))

NoBranch == [tag |-> "none", val |-> 0, node |-> 0]

BranchIdle ==
    /\ br = NoBranch
    /\ dom = 0
    /\ bn = 0
    /\ bx = [op |-> "none", view |-> NoBranch, br0 |-> NoBranch, dom0 |-> 0,
             log |-> <<>>, seen |-> <<>>, replaced |-> 0]

\* The branch is built from a view and its node appended by its parent.
BranchBuilt ==
    \E view \in BranchViews :
        /\ br = BranchBuild(view, 0)
        /\ dom = br.node
        /\ bn = 1
        /\ bx = [op |-> "build", view |-> view, br0 |-> NoBranch, dom0 |-> 0,
                 log |-> <<Ev("build", 1)>>, seen |-> <<view.tag>>, replaced |-> 0]

\* A render updates the branch with the view of one of the variants.
BrUpdate ==
    /\ Len(bx.seen) <= MaxLen
    /\ \E view \in BranchViews :
        LET r == BranchUpdate(view, br, dom, bn)
        IN  /\ br' = r.product
            /\ dom' = r.dom
            /\ bn' = r.nodes
            /\ bx' = [op |-> "update", view |-> view, br0 |-> br, dom0 |-> dom,
                      log |-> r.log, seen |-> Append(bx.seen, view.tag),
                      replaced |-> bx.replaced + Count(r.log, "replace_with")]
    /\ UNCHANGED <<listVars, rtVars, stVars, evVars, dfVars, llVars, cxVars, plVars, opVars, vrVars, svVars>>

(***************************************************************************)
(* The diff layer: the views that never diff (Eager, Static), Invar and    *)
(* Fence, each over one text node of the host.                             *)
(***************************************************************************)
\* What a render hands to the view: the guard of a fence and the value shown.
DiffViews == [guard : Vals, val : Vals]

Done(p, log) == [product |-> p, log |-> log]

\* impl_no_diff! View::build: p.put(self.into_text())
NoDiffBuild(view) ==
    Done([guard |-> 0, text |-> view.val], <<Ev("put", view.val)>>)

\* impl_no_diff! View::update: if $update { self.0.set_prop(TextContent, node) }
NoDiffUpdate(update, view, p) ==
    IF update
    THEN Done([p EXCEPT !.text = view.val], <<Ev("set_text", view.val)>>)
    ELSE Done(p, <<>>)

\* A Static that applies its value on update.
StaticUpdateApplies(view, p) == NoDiffUpdate(TRUE, view, p)

\* impl_no_diff!(Eager, true)
EagerUpdate(view, p) == NoDiffUpdate(TRUE, view, p)

\* impl_no_diff!(Static, false)
StaticUpdate(view, p) == NoDiffUpdate(FALSE, view, p)

\* Invar::build: (self.0)().build(p), the inner view being a value applied
\* on every update.
InvarBuild(view) ==
    LET b == NoDiffBuild(view)
    IN  Done(b.product, <<Ev("render", view.val)>> \o b.log)

\* An Invar that renders and updates its inner view.
InvarUpdateRenders(view, p) ==
    LET u == NoDiffUpdate(TRUE, view, p)
    IN  Done(u.product, <<Ev("render", view.val)>> \o u.log)

\* Invar::update: fn update(self, _: &mut Self::Product) {}
InvarUpdate(view, p) == Done(p, <<>>)

\* Diff for the primitives (impl_diff!): into_memo is the value itself.
IntoMemo(v) == v

\* Diff::diff of impl_diff!: if self != *memo { *memo = self; true } else { false }
Diff(v, memo) ==
    IF v # memo THEN [memo |-> v, changed |-> TRUE] ELSE [memo |-> memo, changed |-> FALSE]

\* Fence::build: the guard's memo is stored and the inner view built.
FenceBuild(view) ==
    LET b == NoDiffBuild(view)
    IN  Done([b.product EXCEPT !.guard = IntoMemo(view.guard)],
             <<Ev("render", view.val)>> \o b.log)

\* A Fence that renders on every update.
FenceUpdateAlways(view, p) ==
    LET d == Diff(view.guard, p.guard)
        u == EagerUpdate(view, [p EXCEPT !.guard = d.memo])
    IN  Done(u.product, <<Ev("render", view.val)>> \o u.log)

\* Fence::update: if self.guard.diff(&mut p.guard) { (self.inner)().update(&mut p.inner) }
FenceUpdate(view, p) ==
    LET d == Diff(view.guard, p.guard)
        u == EagerUpdate(view, [p EXCEPT !.guard = d.memo])
    IN  IF d.changed
        THEN Done(u.product, <<Ev("render", view.val)>> \o u.log)
        ELSE Done([p EXCEPT !.guard = d.memo], <<>>)

ViewKinds == {"eager", "static", "invar", "fence"}

DiffBuild(kind, view) ==
    CASE kind = "fence" -> FenceBuild(view)
      [] kind = "invar" -> InvarBuild(view)
      [] OTHER -> NoDiffBuild(view)

DiffUpdate(kind, view, p) ==
    CASE kind = "fence" -> FenceUpdate(view, p)
      [] kind = "invar" -> InvarUpdate(view, p)
      [] kind = "static" -> StaticUpdate(view, p)
      [] OTHER -> EagerUpdate(view, p)

NoView == [guard |-> 0, val |-> 0]

DiffIdle ==
    /\ dk = "none"
    /\ dv = [guard |-> 0, text |-> 0]
    /\ dx = [op |-> "none", view |-> NoView, prev |-> NoView, dv0 |-> dv, log |-> <<>>, n |-> 0]

\* One of the views is built from what the first render hands it.
DiffBuilt ==
    \E kind \in ViewKinds, view \in DiffViews :
        /\ dk = kind
        /\ dv = DiffBuild(kind, view).product
        /\ dx = [op |-> "build", view |-> view, prev |-> NoView,
                 dv0 |-> [guard |-> 0, text |-> 0],
                 log |-> DiffBuild(kind, view).log, n |-> 0]

\* A render updates the product with a new view of the same type.
DfUpdate ==
    /\ dk \in ViewKinds
    /\ dx.n < MaxLen
    /\ \E view \in DiffViews :
        LET r == DiffUpdate(dk, view, dv)
        IN  /\ dv' = r.product
            /\ dx' = [op |-> "update", view |-> view, prev |-> dx.view,
                      dv0 |-> dv, log |-> r.log, n |-> dx.n + 1]
    /\ UNCHANGED dk
    /\ UNCHANGED <<listVars, rtVars, stVars, evVars, brVars, llVars, cxVars, plVars, opVars, vrVars, svVars>>

(***************************************************************************)
(* The Diff implementors that keep a memo: the primitives (integers and    *)
(* floats), Option<T>, the string types, &Ref<T> and &Ver<T>.              *)
(***************************************************************************)
MemoKinds == {"int", "float", "option", "str", "ref", "ver"}

\* f32 and f64 values: a number or a NaN.
Floats == [nan : BOOLEAN, v : Vals]

\* PartialEq::ne of f32/f64: a NaN is unequal to everything, itself included.
FloatNe(a, b) == a.nan \/ b.nan \/ a.v # b.v

\* Diff::diff of impl_diff! for f32 and f64, `!=` being the floats'.
FloatDiff(v, memo) ==
    IF FloatNe(v, memo) THEN [memo |-> v, changed |-> TRUE] ELSE [memo |-> memo, changed |-> FALSE]

\* Diff for Option<T>: if self != *memo { *memo = self; true } else { false }
OptionDiff(v, memo) ==
    IF v # memo THEN [memo |-> v, changed |-> TRUE] ELSE [memo |-> memo, changed |-> FALSE]

\* impl_diff_str! into_memo: as_ref(self).into(), a new Box<str>; box names
\* the allocation, heap counts the allocations made so far.
StrIntoMemo(str, heap) == [str |-> str, box |-> heap + 1]

\* A string diff that copies its input on every call.
StrDiffAlwaysCopies(str, memo, heap) ==
    [memo |-> StrIntoMemo(str, heap), changed |-> str # memo.str, heap |-> heap + 1]

\* impl_diff_str! diff: if as_ref(self) != &**memo { *memo = as_ref(self).into(); true }
StrDiff(str, memo, heap) ==
    IF str # memo.str
    THEN [memo |-> StrIntoMemo(str, heap), changed |-> TRUE, heap |-> heap + 1]
    ELSE [memo |-> memo, changed |-> FALSE, heap |-> heap]

\* A &Ref<T>: the address it points to and the value found there.
Refs == [addr : Vals, val : Vals]

\* Diff for &Ref<T>: into_memo is NonNull::from(&self.0).cast()
RefIntoMemo(r) == r.addr

\* Diff for &Ref<T>: if ptr != *memo { *memo = ptr; true } else { false }
RefDiff(r, memo) ==
    IF RefIntoMemo(r) # memo
    THEN [memo |-> RefIntoMemo(r), changed |-> TRUE]
    ELSE [memo |-> memo, changed |-> FALSE]

\* The shift of the version in a Ver memo, 32 in the source, and with it the
\* widths of the integers: the memo has twice as many bits (u64), usize has
\* as many (wasm32) or twice as many (64-bit targets).
ShiftBits == 2

MemoBits == 2 * ShiftBits

UsizeBits == {ShiftBits, 2 * ShiftBits}

\* Accesses to a Ver<T> in one run.
MaxAccess == 4

RECURSIVE BitOr(_, _)
BitOr(a, b) ==
    IF a = 0 THEN b
    ELSE IF b = 0 THEN a
    ELSE (IF a % 2 = 1 \/ b % 2 = 1 THEN 1 ELSE 0) + 2 * BitOr(a \div 2, b \div 2)

\* First machine words a value may show: low bits only, or bits at and above
\* the shift as well (a usize as wide as the memo).
Words(bits) == {w \in {0, 1, 2^ShiftBits, 2^ShiftBits + 1} : w < 2^bits}

\* Ver::new: version 0; bits is the width of usize, aligned whether T has
\* usize's alignment and a multiple of its size.
VerNew(word, bits, aligned) == [ver |-> 0, word |-> word, bits |-> bits, aligned |-> aligned]

NoVer == VerNew(0, 0, FALSE)

\* VerValue::noise: the first word of the value read as a usize, or 0.
Noise(x) == IF x.aligned THEN x.word ELSE 0

\* Diff for &Ver<T>: into_memo is (self.ver as u64).wrapping_shl(32) | self.inner.noise()
VerIntoMemo(x) == BitOr((x.ver * 2^ShiftBits) % 2^MemoBits, Noise(x))

\* Diff for &Ver<T>: diff
VerDiff(x, memo) ==
    IF memo # VerIntoMemo(x)
    THEN [memo |-> VerIntoMemo(x), changed |-> TRUE]
    ELSE [memo |-> memo, changed |-> FALSE]

\* DerefMut::deref_mut and Write::write_str: self.ver += 1 on a usize (which
\* wraps in a release build), then the value is handed out for writing.
VerDerefMut(x, word) == [x EXCEPT !.ver = (@ + 1) % 2^x.bits, !.word = word]

\* A read-only access that counts as a change.
VerDerefCounts(x) == [x EXCEPT !.ver = (@ + 1) % 2^x.bits]

\* Deref::deref, PartialEq::eq, PartialOrd::partial_cmp, Ord::cmp, Debug::fmt,
\* Display::fmt and Hash::hash: each takes &self and reads self.inner.val().
VerDeref(x) == x

\* The values a diff may be given.
DiffValues(kind, x) ==
    CASE kind = "int" -> Vals
      [] kind = "float" -> Floats
      [] kind = "option" -> {None} \cup Vals
      [] kind = "str" -> Vals
      [] kind = "ref" -> Refs
      [] OTHER -> {x}

MemoOf(kind, value, heap) ==
    CASE kind = "str" -> StrIntoMemo(value, heap)
      [] kind = "ref" -> RefIntoMemo(value)
      [] kind = "ver" -> VerIntoMemo(value)
      [] OTHER -> IntoMemo(value)

MemoDiff(kind, value, memo, heap) ==
    LET r == CASE kind = "float" -> FloatDiff(value, memo)
               [] kind = "option" -> OptionDiff(value, memo)
               [] kind = "ref" -> RefDiff(value, memo)
               [] kind = "ver" -> VerDiff(value, memo)
               [] OTHER -> Diff(value, memo)
    IN  IF kind = "str" THEN StrDiff(value, memo, heap)
        ELSE [memo |-> r.memo, changed |-> r.changed, heap |-> heap]

\* A memo is made from a first value, as a build does.
MemoBuilt ==
    \E kind \in MemoKinds, bits \in UsizeBits, aligned \in BOOLEAN :
      \E word \in Words(bits) :
        LET x == IF kind = "ver" THEN VerNew(word, bits, aligned) ELSE NoVer
        IN  \E value \in DiffValues(kind, x) :
              /\ dk = kind
              /\ dv = [memo |-> MemoOf(kind, value, 0),
                       heap |-> IF kind = "str" THEN 1 ELSE 0, obj |-> x]
              /\ dx = [op |-> "into_memo", value |-> value, prev |-> value,
                       memo0 |-> dv.memo, heap0 |-> 0, changed |-> FALSE,
                       k |-> 0, k0 |-> 0, caps |-> {dv.memo}, caps0 |-> {}, n |-> 0]

\* An update diffs a value against the memo.
DfDiff ==
    /\ dk \in MemoKinds
    /\ dx.n < MaxLen
    /\ \E value \in DiffValues(dk, dv.obj) :
        LET r == MemoDiff(dk, value, dv.memo, dv.heap)
        IN  /\ dv' = [dv EXCEPT !.memo = r.memo, !.heap = r.heap]
            /\ dx' = [op |-> "diff", value |-> value, prev |-> dx.value,
                      memo0 |-> dv.memo, heap0 |-> dv.heap, changed |-> r.changed,
                      k |-> 0, k0 |-> dx.k, caps |-> dx.caps \cup {r.memo}, caps0 |-> dx.caps,
                      n |-> dx.n + 1]
    /\ UNCHANGED dk
    /\ UNCHANGED <<listVars, rtVars, stVars, evVars, brVars, llVars, cxVars, plVars, opVars, vrVars, svVars>>

\* A mutable access to the Ver<T>, which may leave any first word behind.
DfDerefMut ==
    /\ dk = "ver"
    /\ dx.k < MaxAccess
    /\ \E word \in Words(dv.obj.bits) :
        /\ dv' = [dv EXCEPT !.obj = VerDerefMut(dv.obj, word)]
        /\ dx' = [dx EXCEPT !.op = "deref_mut", !.k = @ + 1]
    /\ UNCHANGED dk
    /\ UNCHANGED <<listVars, rtVars, stVars, evVars, brVars, llVars, cxVars, plVars, opVars, vrVars, svVars>>

(***************************************************************************)
(* list/unbounded/list.rs: the singly linked list behind the unbounded     *)
(* list product.  heap holds the boxed nodes, a node's address being its   *)
(* index; Unset is a next pointer not yet written; tail is the address of   *)
(* the node whose next field the next push writes, or HeadField for the    *)
(* list's own head field.                                                  *)
(***************************************************************************)
Unset == 0

HeadField == 0

\* LinkedList::build: tail = &head, len = 0, head left uninitialised.
LinkedListBuild == [heap |-> <<>>, head |-> Unset, tail |-> HeadField, len |-> 0]

\* The write through tail: into the list's head or into a node's next field.
WriteTail(l, addr) ==
    IF l.tail = HeadField
    THEN [l EXCEPT !.head = addr]
    ELSE [l EXCEPT !.heap[l.tail].next = addr]

\* A push that keeps the nodes in one growing buffer: every node moves up by
\* one address when the buffer is reallocated.
LinkedListPushRealloc(l, item) ==
    LET moved == [a \in 1..Len(l.heap) + 1 |->
                    IF a = 1 THEN [item |-> item, next |-> Unset]
                    ELSE [item |-> l.heap[a - 1].item,
                          next |-> IF l.heap[a - 1].next = Unset
                                   THEN 1 ELSE l.heap[a - 1].next + 1]]
    IN  [heap |-> moved, head |-> IF l.len = 0 THEN 1 ELSE l.head + 1,
         tail |-> 1, len |-> l.len + 1]

\* A push that links the new node in front of the list.
LinkedListPushFront(l, item) ==
    LET addr == Len(l.heap) + 1
    IN  [heap |-> Append(l.heap, [item |-> item, next |-> l.head]),
         head |-> addr, tail |-> l.tail, len |-> l.len + 1]

\* LinkedList::push: the node is boxed with its next uninitialised, its
\* address written through tail, tail moved to its next field, len += 1.
LinkedListPush(l, item) ==
    LET addr == Len(l.heap) + 1
        w == WriteTail([l EXCEPT !.heap = Append(@, [item |-> item, next |-> Unset])], addr)
    IN  [w EXCEPT !.tail = addr, !.len = @ + 1]

\* LinkedList::iter
LinkedListIter(l) == [pos |-> 0, end |-> l.len, next |-> l.head]

\* ListIter::limit
ListIterLimit(it, limit) == [it EXCEPT !.end = Min(it.end, limit)]

\* Iterator::next for ListIter, called until it returns None: the addresses
\* of the items yielded; a next that follows an uninitialised pointer yields
\* Unset and stops there.
RECURSIVE ListIterNext(_, _)
ListIterNext(l, it) ==
    IF it.pos >= it.end THEN <<>>
    ELSE IF it.next = Unset THEN <<Unset>>
    ELSE <<it.next>> \o ListIterNext(l, [it EXCEPT !.next = l.heap[it.next].next, !.pos = @ + 1])

\* The items at the addresses an iteration yielded.
ItemsAt(l, addrs) == [i \in 1..Len(addrs) |-> IF addrs[i] = Unset THEN Unset ELSE l.heap[addrs[i]].item]

LinkedListIdle ==
    /\ ll = LinkedListBuild
    /\ lx = [op |-> "idle", ll0 |-> LinkedListBuild, yield |-> <<>>, pushed |-> <<>>, limit |-> 0,
             seen |-> 0, seen0 |-> 0]

LinkedListBuilt ==
    /\ ll = LinkedListBuild
    /\ lx = [op |-> "build", ll0 |-> LinkedListBuild, yield |-> <<>>, pushed |-> <<>>, limit |-> 0,
             seen |-> 0, seen0 |-> 0]

\* list.push(|n| n.put(item))
LlPush ==
    /\ lx.op # "idle"
    /\ ll.len < MaxNodes
    /\ \E item \in Vals :
        /\ ll' = LinkedListPush(ll, item)
        /\ lx' = [op |-> "push", ll0 |-> ll, yield |-> <<>>,
                  pushed |-> Append(lx.pushed, item), limit |-> 0,
                  seen |-> lx.seen, seen0 |-> lx.seen0]
    /\ UNCHANGED <<listVars, rtVars, stVars, evVars, brVars, dfVars, cxVars, plVars, opVars, vrVars, svVars>>

\* list.iter() run to its end; seen is the number of items it yielded and
\* seen0 what the complete iteration before it yielded.
LlIter ==
    /\ lx.op # "idle"
    /\ lx' = [lx EXCEPT !.op = "iter", !.ll0 = ll, !.limit = ll.len,
                        !.seen = ll.len, !.seen0 = lx.seen,
                        !.yield = ListIterNext(ll, LinkedListIter(ll))]
    /\ UNCHANGED ll
    /\ UNCHANGED <<listVars, rtVars, stVars, evVars, brVars, dfVars, cxVars, plVars, opVars, vrVars, svVars>>

\* list.iter() with a limit, as the list product takes the items to update.
LlIterLimit ==
    /\ lx.op # "idle"
    /\ \E limit \in 0..MaxNodes :
        lx' = [lx EXCEPT !.op = "iter_limit", !.ll0 = ll, !.limit = limit,
                         !.yield = ListIterNext(ll, ListIterLimit(LinkedListIter(ll), limit))]
    /\ UNCHANGED ll
    /\ UNCHANGED <<listVars, rtVars, stVars, evVars, brVars, dfVars, cxVars, plVars, opVars, vrVars, svVars>>

(***************************************************************************)
(* Where the Hook lives.  A Signal keeps `inner`, a raw pointer to the      *)
(* Hook's state cell, and the closures of bind and bind_async keep `this`,  *)
(* a raw pointer to the Hook; both are taken while the product is built.    *)
(* state.rs builds by value: the Hook is made in a local of                 *)
(* Stateful::build, returned into the local `inner` of Once::build and      *)
(* returned again into the tree.  runtime.rs builds in place: the Hook is   *)
(* written into its final place before any pointer to it is taken.          *)
(***************************************************************************)

\* The places a Hook passes through: the local `state` of Stateful::build,
\* the local `inner` of Once::build, and its place in the product tree.
Places == {"build", "inner", "tree"}

NoHook ==
    [phase |-> "unbuilt", how |-> "none", place |-> "none", this |-> "none",
     mounted |-> FALSE, signals |-> <<>>, strong |-> 0, val |-> 0, stray |-> FALSE]

\* Hook::new(self.state.init()) into the place `at`.
HookNewAt(h, at, how) ==
    [h EXCEPT !.phase = "alive", !.place = at, !.mounted = TRUE, !.how = how,
              !.val = InitState]

\* The Hook is returned by value: it lives at another place from now on.
HookMove(h, to) == [h EXCEPT !.place = to]

\* (self.render)(&state): bind and bind_async keep a pointer to the Hook they
\* are lent.  Their listeners (state/hook.rs) are views that build in place
\* only, so a product built by value holds none.
HookLend(h) == [h EXCEPT !.this = IF h.how = "in_place" THEN h.place ELSE @]

\* A Signal::new that takes a strong reference of its own to the drop flag.
PlaceSignalNewStrong(h, hook) ==
    [h EXCEPT !.signals = Append(@, hook), !.strong = @ + 1]

\* Signal::new(hook): inner is &hook.inner; the Hook's drop flag is made by
\* get_or_insert_with on first use and the Signal holds a Weak to it.
PlaceSignalNew(h, hook) ==
    [h EXCEPT !.signals = Append(@, hook), !.strong = IF @ = 0 THEN 1 ELSE @]

\* Stateful::build of state.rs: the Hook is a local, lent to the render
\* closure, then moved into the StatefulProduct that is returned.
StatefulBuildByValue(h) == HookMove(HookLend(HookNewAt(h, "build", "by_value")), "inner")

\* Once::build of state.rs: Signal::new(&inner.state), then inner is moved
\* into the OnceProduct that is returned.
OnceBuildByValue(h) ==
    LET inner == StatefulBuildByValue(h)
    IN  HookMove(PlaceSignalNew(inner, inner.place), "tree")

\* Stateful::build of runtime.rs: init!(p.state = Hook::new(..)), and the
\* render closure is lent &*state in that place.
StatefulBuildInPlace(h) == HookLend(HookNewAt(h, "tree", "in_place"))

\* Once::build of runtime.rs: init!(p.inner @ ..), Signal::new(&product.state).
OnceBuildInPlace(h) ==
    LET inner == StatefulBuildInPlace(h)
    IN  PlaceSignalNew(inner, inner.place)

\* The liveness check of a Signal: self.drop_flag.strong_count() == 1.
PlaceLive(h) == h.strong = 1

\* A step: the pointer it went through, the Signal it used (0: none), whether
\* the liveness check passed, and where and whether the Hook was at that time.
\* &mut *(*self.inner).get() and the mutator: the write lands in the Hook's
\* state when the pointer is to the place where the Hook is, and in memory
\* the Hook has left otherwise.
PlaceWrite(h, ptr, v) ==
    IF ptr = h.place /\ h.phase = "alive"
    THEN [h EXCEPT !.val = v]
    ELSE [h EXCEPT !.stray = TRUE]

Use(op, ptr, i, pass) ==
    [op |-> op, ptr |-> ptr, sig |-> i, pass |-> pass, place |-> hk.place,
     alive |-> hk.phase = "alive"]

PlaceIdle ==
    /\ hk = NoHook
    /\ hx = [op |-> "idle", ptr |-> "none", sig |-> 0, pass |-> FALSE, place |-> "none",
             alive |-> FALSE]

PlaceStart ==
    /\ hk = NoHook
    /\ hx = [op |-> "none", ptr |-> "none", sig |-> 0, pass |-> FALSE, place |-> "none",
             alive |-> FALSE]

\* stateful(..).once(..) is built through View::build of state.rs.
PlBuildByValue ==
    /\ hx.op = "none" /\ hk.phase = "unbuilt"
    /\ hk' = OnceBuildByValue(hk)
    /\ hx' = Use("build", "none", 0, FALSE)
    /\ UNCHANGED <<listVars, rtVars, stVars, evVars, brVars, dfVars, llVars, cxVars, opVars, vrVars, svVars>>

\* stateful(..).once(..) is built through the in-place build of runtime.rs.
PlBuildInPlace ==
    /\ hx.op = "none" /\ hk.phase = "unbuilt"
    /\ hk' = OnceBuildInPlace(hk)
    /\ hx' = Use("build", "none", 0, FALSE)
    /\ UNCHANGED <<listVars, rtVars, stVars, evVars, brVars, dfVars, llVars, cxVars, opVars, vrVars, svVars>>

\* Stateful::update: (self.render)(&p.state).update(&mut p.product); the
\* listeners get closures made from the Hook where it is now.
PlUpdate ==
    /\ hk.phase = "alive" /\ hk.mounted
    /\ hk' = HookLend(hk)
    /\ hx' = Use("update", "none", 0, FALSE)
    /\ UNCHANGED <<listVars, rtVars, stVars, evVars, brVars, dfVars, llVars, cxVars, opVars, vrVars, svVars>>

\* Signal::update on one of the Signals: inner is dereferenced when the
\* check passes, and nothing is done otherwise.
PlSignal ==
    /\ hk.phase # "unbuilt"
    /\ \E i \in 1..Len(hk.signals), v \in Seconds :
        /\ hk' = IF PlaceLive(hk) THEN PlaceWrite(hk, hk.signals[i], v) ELSE hk
        /\ hx' = Use("signal", hk.signals[i], i, PlaceLive(hk))
    /\ UNCHANGED <<listVars, rtVars, stVars, evVars, brVars, dfVars, llVars, cxVars, opVars, vrVars, svVars>>

\* An event reaches a listener made by Hook::bind: callback(&mut *this, e).
PlBind ==
    /\ hk.phase = "alive" /\ hk.mounted /\ hk.this # "none"
    /\ \E v \in Seconds : hk' = PlaceWrite(hk, hk.this, v)
    /\ hx' = Use("bind", hk.this, 0, FALSE)
    /\ UNCHANGED <<listVars, rtVars, stVars, evVars, brVars, dfVars, llVars, cxVars, opVars, vrVars, svVars>>

\* An event reaches a listener made by Hook::bind_async:
\* Signal::new(unsafe { &*this }).
PlBindAsync ==
    /\ hk.phase = "alive" /\ hk.mounted /\ hk.this # "none" /\ Len(hk.signals) < MaxLen
    /\ hk' = PlaceSignalNew(hk, hk.this)
    /\ hx' = Use("bind_async", hk.this, Len(hk.signals) + 1, FALSE)
    /\ UNCHANGED <<listVars, rtVars, stVars, evVars, brVars, dfVars, llVars, cxVars, opVars, vrVars, svVars>>

\* The parent list unmounts the product and keeps it: no event reaches its
\* listeners, its Hook stays where it is.
PlUnmount ==
    /\ hk.phase = "alive" /\ hk.mounted
    /\ hk' = [hk EXCEPT !.mounted = FALSE]
    /\ hx' = Use("unmount", "none", 0, FALSE)
    /\ UNCHANGED <<listVars, rtVars, stVars, evVars, brVars, dfVars, llVars, cxVars, opVars, vrVars, svVars>>

\* The parent list mounts the retained product again and updates it.
PlMount ==
    /\ hk.phase = "alive" /\ ~hk.mounted
    /\ hk' = HookLend([hk EXCEPT !.mounted = TRUE])
    /\ hx' = Use("mount", "none", 0, FALSE)
    /\ UNCHANGED <<listVars, rtVars, stVars, evVars, brVars, dfVars, llVars, cxVars, opVars, vrVars, svVars>>

\* The product is dropped with its owner, listeners and Hook with it.
PlDrop ==
    /\ hk.phase = "alive"
    /\ hk' = [hk EXCEPT !.phase = "dropped", !.mounted = FALSE, !.strong = 0]
    /\ hx' = Use("drop", "none", 0, FALSE)
    /\ UNCHANGED <<listVars, rtVars, stVars, evVars, brVars, dfVars, llVars, cxVars, opVars, vrVars, svVars>>

(***************************************************************************)
(* Option<T> as a view (branching.rs): its product is Branch2<T::Product,  *)
(* EmptyNode>.  The same renders are given to an Option<T> and to a        *)
(* Branch2<T, Empty>, each with a product and a host of its own.           *)
(***************************************************************************)
OptionViews == {[some |-> FALSE, val |-> 0]} \cup [some : {TRUE}, val : Vals]

\* Some(view) as Branch2::A(view), None as Branch2::B(Empty).
AsBranch2(o) == IF o.some THEN [tag |-> "A", val |-> o.val] ELSE [tag |-> "B", val |-> 0]

\* T::build, a new node with the view's value.
InnerBuild(val, n) == <<Ev("build", n + 1), Ev("set", val)>>

\* T::update on the product behind node.
InnerUpdate(val, node) == <<Ev("update", node), Ev("set", val)>>

\* Empty::build: EmptyNode(empty_node()).
EmptyBuild(n) == <<Ev("empty_node", n + 1)>>

\* Empty::update: fn update(self, _: &mut EmptyNode) {}
EmptyUpdate == <<>>

\* View::build of Branch2<T, Empty>.
Branch2Build(view, n) ==
    [product |-> [tag |-> view.tag, val |-> view.val, node |-> n + 1],
     log |-> IF view.tag = "A" THEN InnerBuild(view.val, n) ELSE EmptyBuild(n)]

\* View::update of Branch2<T, Empty>: the same variant updates the inner
\* product; any other pair builds, replaces and calls replace_with.
Branch2Update(view, p, host, n) ==
    IF view.tag = p.tag
    THEN Branched([p EXCEPT !.val = view.val], host, n,
                  IF view.tag = "A" THEN InnerUpdate(view.val, p.node) ELSE EmptyUpdate)
    ELSE LET new == Branch2Build(view, n)
         IN  Branched(new.product, ReplaceWith(host, p.node, new.product.node), n + 1,
                      new.log \o <<Ev("replace", new.product.node), Ev("replace_with", p.node)>>)

\* View::build of Option<T>: Some(view) => Branch2::A(view.build()),
\* None => Branch2::B(EmptyNode(empty_node())).
OptionBuild(o, n) ==
    IF o.some
    THEN [product |-> [tag |-> "A", val |-> o.val, node |-> n + 1],
          log |-> InnerBuild(o.val, n)]
    ELSE [product |-> [tag |-> "B", val |-> 0, node |-> n + 1],
          log |-> <<Ev("empty_node", n + 1)>>]

\* An Option update whose None arm is missing: None over an empty node falls
\* through to the arm that builds and replaces.
OptionUpdateNoneRebuilds(o, p, host, n) ==
    IF o.some /\ p.tag = "A"
    THEN Branched([p EXCEPT !.val = o.val], host, n, InnerUpdate(o.val, p.node))
    ELSE LET new == OptionBuild(o, n)
         IN  Branched(new.product, ReplaceWith(host, p.node, new.product.node), n + 1,
                      new.log \o <<Ev("replace", new.product.node), Ev("replace_with", p.node)>>)

\* View::update of Option<T>: (Some(view), Branch2::A(p)) => view.update(p),
\* (None, Branch2::B(_)) => (), and any other pair builds the view, replaces
\* the product and calls old.replace_with(p.js()).
OptionUpdate(o, p, host, n) ==
    IF o.some /\ p.tag = "A"
    THEN Branched([p EXCEPT !.val = o.val], host, n, InnerUpdate(o.val, p.node))
    ELSE IF ~o.some /\ p.tag = "B"
    THEN Branched(p, host, n, <<>>)
    ELSE LET new == OptionBuild(o, n)
         IN  Branched(new.product, ReplaceWith(host, p.node, new.product.node), n + 1,
                      new.log \o <<Ev("replace", new.product.node), Ev("replace_with", p.node)>>)

\* View::trigger of Branch2<T, Empty>: the same variant hands the event to the
\* inner view, and Empty has no listener; any other pair answers None.
Branch2Trigger(view, p) == IF view.tag = p.tag /\ view.tag = "A" THEN "inner" ELSE "None"

\* View::trigger of Option<T>: (Some(view), Branch2::A(p)) => view.trigger(ctx, p),
\* _ => None.
OptionTrigger(o, p) == IF o.some /\ p.tag = "A" THEN "inner" ELSE "None"

NoOption == [product |-> NoBranch, dom |-> 0, nodes |-> 0, log |-> <<>>]

OptionIdle ==
    /\ ov = [o |-> NoOption, b |-> NoOption]
    /\ ox = [op |-> "idle", view |-> [some |-> FALSE, val |-> 0], ov0 |-> [o |-> NoOption, b |-> NoOption],
             renders |-> 0, fired |-> <<>>]

\* Both are built from the same view and their nodes appended by the parent.
OptionBuilt ==
    \E o \in OptionViews :
        LET x == OptionBuild(o, 0)
            y == Branch2Build(AsBranch2(o), 0)
        IN  /\ ov = [o |-> Branched(x.product, x.product.node, 1, x.log),
                     b |-> Branched(y.product, y.product.node, 1, y.log)]
            /\ ox = [op |-> "build", view |-> o, ov0 |-> [o |-> NoOption, b |-> NoOption],
                     renders |-> 0, fired |-> <<>>]

\* A render updates both with the same view.
OpUpdate ==
    /\ ox.op # "idle" /\ ox.renders < MaxLen
    /\ \E o \in OptionViews :
        /\ ov' = [o |-> OptionUpdate(o, ov.o.product, ov.o.dom, ov.o.nodes),
                  b |-> Branch2Update(AsBranch2(o), ov.b.product, ov.b.dom, ov.b.nodes)]
        /\ ox' = [op |-> "update", view |-> o, ov0 |-> ov, renders |-> ox.renders + 1,
                  fired |-> <<>>]
    /\ UNCHANGED <<listVars, rtVars, stVars, evVars, brVars, dfVars, llVars, cxVars, plVars, vrVars, svVars>>

\* An event is dispatched to both with the same view.
OpTrigger ==
    /\ ox.op # "idle"
    /\ \E o \in OptionViews :
        ox' = [ox EXCEPT !.op = "trigger", !.view = o, !.ov0 = ov,
                         !.fired = <<OptionTrigger(o, ov.o.product),
                                     Branch2Trigger(AsBranch2(o), ov.b.product)>>]
    /\ UNCHANGED ov
    /\ UNCHANGED <<listVars, rtVars, stVars, evVars, brVars, dfVars, llVars, cxVars, plVars, vrVars, svVars>>

(***************************************************************************)
(* diff/ver.rs: one Ver<T> and the memo a product keeps of it, under       *)
(* read-only accesses, mutable accesses and diffs.                         *)
(***************************************************************************)
VerStep(op, changed, k, r, n) ==
    [op |-> op, changed |-> changed, k |-> k, r |-> r, n |-> n, k0 |-> vx.k, r0 |-> vx.r,
     memo0 |-> vv.memo, obj0 |-> vv.obj]

VerIdle ==
    /\ vv = [obj |-> NoVer, memo |-> 0]
    /\ vx = [op |-> "idle", changed |-> FALSE, k |-> 0, r |-> FALSE, n |-> 0, k0 |-> 0,
             r0 |-> FALSE, memo0 |-> 0, obj0 |-> NoVer]

\* Ver::new, and the build of a view that takes the first memo of it.
VerBuilt ==
    \E bits \in UsizeBits, aligned \in BOOLEAN :
      \E word \in Words(bits) :
        /\ vv = [obj |-> VerNew(word, bits, aligned),
                 memo |-> VerIntoMemo(VerNew(word, bits, aligned))]
        /\ vx = [op |-> "into_memo", changed |-> FALSE, k |-> 0, r |-> FALSE, n |-> 0,
                 k0 |-> 0, r0 |-> FALSE, memo0 |-> 0, obj0 |-> NoVer]

\* A read-only access: a deref, a comparison, a format, a hash.
VrDeref ==
    /\ vx.op # "idle"
    /\ vv' = [vv EXCEPT !.obj = VerDeref(vv.obj)]
    /\ vx' = VerStep("deref", FALSE, vx.k, TRUE, vx.n)
    /\ UNCHANGED <<listVars, rtVars, stVars, evVars, brVars, dfVars, llVars, cxVars, plVars, opVars, svVars>>

\* A mutable access, which may leave any first word behind.
VrDerefMut ==
    /\ vx.op # "idle" /\ vx.k < MaxAccess
    /\ \E word \in Words(vv.obj.bits) :
        vv' = [vv EXCEPT !.obj = VerDerefMut(vv.obj, word)]
    /\ vx' = VerStep("deref_mut", FALSE, vx.k + 1, vx.r, vx.n)
    /\ UNCHANGED <<listVars, rtVars, stVars, evVars, brVars, dfVars, llVars, cxVars, plVars, opVars, svVars>>

\* An update diffs the Ver<T> against the memo.
VrDiff ==
    /\ vx.op # "idle" /\ vx.n < MaxLen
    /\ LET d == VerDiff(vv.obj, vv.memo)
       IN  /\ vv' = [vv EXCEPT !.memo = d.memo]
           /\ vx' = VerStep("diff", d.changed, 0, FALSE, vx.n + 1)
    /\ UNCHANGED <<listVars, rtVars, stVars, evVars, brVars, dfVars, llVars, cxVars, plVars, opVars, svVars>>

(***************************************************************************)
(* cli/src/serve.rs: the file watcher notifies the debounce routine over a *)
(* channel, the routine gathers paths and sends a BuildEvent to the        *)
(* builder thread over a second channel, waits for the build and cools     *)
(* down.  pc is the await the routine is suspended at.                     *)
(***************************************************************************)
\* mpsc::channel(1), both channels.
ChannelCap == 1

\* The watched paths.
Paths == 1..MaxVal

\* The paths of one notification.
UpdateEvents == SUBSET Paths \ {{}}

NoServe ==
    [notified |-> <<>>, pc |-> "idle", paths |-> {}, send_build |-> <<>>,
     builder |-> "waiting", building |-> {}, done |-> FALSE]

ServeStep(op, paths) == [op |-> op, paths |-> paths, pc0 |-> sv.pc]

ServeIdle ==
    /\ sv = NoServe
    /\ sx = [op |-> "idle", paths |-> {}, pc0 |-> "idle"]

\* serve: the watcher, the builder thread and the routine are started.
ServeStart ==
    /\ sv = NoServe
    /\ sx = [op |-> "serve", paths |-> {}, pc0 |-> "idle"]

\* Notifier::notify: blocking_send, which waits for room in the channel.
SvNotify ==
    /\ sx.op # "idle" /\ Len(sv.notified) < ChannelCap
    /\ \E e \in UpdateEvents :
        /\ sv' = [sv EXCEPT !.notified = Append(@, e)]
        /\ sx' = ServeStep("notify", e)
    /\ UNCHANGED <<listVars, rtVars, stVars, evVars, brVars, dfVars, llVars, cxVars, plVars, opVars, vrVars>>

\* while let Some(UpdateEvent { mut paths }) = notified.recv().await
SvRecv ==
    /\ sx.op # "idle" /\ sv.pc = "idle" /\ sv.notified # <<>>
    /\ sv' = [sv EXCEPT !.notified = Tail(@), !.paths = Head(sv.notified), !.pc = "collect"]
    /\ sx' = ServeStep("recv", Head(sv.notified))
    /\ UNCHANGED <<listVars, rtVars, stVars, evVars, brVars, dfVars, llVars, cxVars, plVars, opVars, vrVars>>

\* The inner loop, future::or(updates, delay) won by updates: the paths of a
\* further notification are added, the answer is true and the loop breaks;
\* the routine goes on to send the BuildEvent.
SvUpdates ==
    /\ sv.pc = "collect" /\ sv.notified # <<>>
    /\ sv' = [sv EXCEPT !.notified = Tail(@), !.paths = @ \cup Head(sv.notified),
                        !.pc = "send"]
    /\ sx' = ServeStep("updates", sv.paths \cup Head(sv.notified))
    /\ UNCHANGED <<listVars, rtVars, stVars, evVars, brVars, dfVars, llVars, cxVars, plVars, opVars, vrVars>>

\* The inner loop, future::or(updates, delay) won by delay: delay_after_update
\* went by with no notification, the answer is false and the loop goes round.
SvDelay ==
    /\ sv.pc = "collect" /\ sv.notified = <<>>
    /\ sv' = sv
    /\ sx' = ServeStep("delay", sv.paths)
    /\ UNCHANGED <<listVars, rtVars, stVars, evVars, brVars, dfVars, llVars, cxVars, plVars, opVars, vrVars>>

\* send_build.send(BuildEvent { paths, done }).await, then wait.await.
SvSend ==
    /\ sv.pc = "send" /\ Len(sv.send_build) < ChannelCap
    /\ sv' = [sv EXCEPT !.send_build = Append(@, sv.paths), !.pc = "wait", !.done = FALSE]
    /\ sx' = ServeStep("send", sv.paths)
    /\ UNCHANGED <<listVars, rtVars, stVars, evVars, brVars, dfVars, llVars, cxVars, plVars, opVars, vrVars>>

\* skip_new_updates, which runs beside build: loop { _ = notified.recv().await }
SvSkip ==
    /\ sv.pc \in {"send", "wait", "cooldown"} /\ sv.notified # <<>>
    /\ sv' = [sv EXCEPT !.notified = Tail(@)]
    /\ sx' = ServeStep("skip", Head(sv.notified))
    /\ UNCHANGED <<listVars, rtVars, stVars, evVars, brVars, dfVars, llVars, cxVars, plVars, opVars, vrVars>>

\* rebuild: builder.wait() hands out a BuildEvent and build(&s.build) starts.
SvBuilderWait ==
    /\ sv.builder = "waiting" /\ sv.send_build # <<>>
    /\ sv' = [sv EXCEPT !.send_build = Tail(@), !.builder = "building",
                        !.building = Head(sv.send_build)]
    /\ sx' = ServeStep("build", Head(sv.send_build))
    /\ UNCHANGED <<listVars, rtVars, stVars, evVars, brVars, dfVars, llVars, cxVars, plVars, opVars, vrVars>>

\* rebuild: the build ends, done.send(()) and updates.produce(res).
SvBuilt ==
    /\ sv.builder = "building"
    /\ sv' = [sv EXCEPT !.builder = "waiting", !.building = {}, !.done = TRUE]
    /\ sx' = ServeStep("built", sv.building)
    /\ UNCHANGED <<listVars, rtVars, stVars, evVars, brVars, dfVars, llVars, cxVars, plVars, opVars, vrVars>>

\* wait.await answers, then tokio::time::sleep(time.cooldown).await.
SvDone ==
    /\ sv.pc = "wait" /\ sv.done
    /\ sv' = [sv EXCEPT !.pc = "cooldown", !.done = FALSE]
    /\ sx' = ServeStep("done", sv.paths)
    /\ UNCHANGED <<listVars, rtVars, stVars, evVars, brVars, dfVars, llVars, cxVars, plVars, opVars, vrVars>>

\* The cooldown went by: build is over, skip_new_updates is dropped and the
\* outer loop waits for a notification again.
SvCooldown ==
    /\ sv.pc = "cooldown"
    /\ sv' = [sv EXCEPT !.pc = "idle", !.paths = {}]
    /\ sx' = ServeStep("cooldown", sv.paths)
    /\ UNCHANGED <<listVars, rtVars, stVars, evVars, brVars, dfVars, llVars, cxVars, plVars, opVars, vrVars>>

(***************************************************************************)
(* runtime/ctx.rs: the Hooks attached to an EventCtx while a dispatch      *)
(* walks down nested Stateful products, and the lookup of the state a      *)
(* bound listener asks for.  hooks are the Hooks along the path, outermost *)
(* first; the attached states are their indices, innermost first.          *)
(***************************************************************************)
StateTypes == {"u32", "String"}

\* EventCtx::new: states: ()
EventCtxNew == <<>>

\* EventContext::attach: states: hook for the first Hook, then
\* (hook, self.states.borrow()).
EventCtxAttach(states, h) == <<h>> \o states

\* A lookup whose tuple arm tests the type only.
RECURSIVE WithStateTypeOnly(_, _, _, _)
WithStateTypeOnly(hs, states, sid, ty) ==
    IF Len(states) = 1
    THEN states[1]
    ELSE IF hs[states[1]].ty = ty
         THEN states[1]
         ELSE WithStateTypeOnly(hs, Tail(states), sid, ty)

\* ContextState::with_state: for (&mut Hook<T>, U) the Hook is taken when
\* TypeId::of::<T>() == TypeId::of::<S>() && self.0.is(sid), else the rest
\* is asked; for the last &mut Hook<T> the Hook is cast and taken untested.
RECURSIVE WithState(_, _, _, _)
WithState(hs, states, sid, ty) ==
    IF Len(states) = 1
    THEN states[1]
    ELSE IF hs[states[1]].ty = ty /\ hs[states[1]].sid = sid
         THEN states[1]
         ELSE WithState(hs, Tail(states), sid, ty)

\* EventContext::with: None for EventCtx<()>, else self.states.with_state;
\* the answer is the Hook the callback is called on.
EventCtxWith(hs, states, sid, ty) ==
    IF states = EventCtxNew THEN None ELSE WithState(hs, states, sid, ty)

Looked(op, req, r) ==
    [op |-> op, req |-> req, called |-> IF r = None THEN <<>> ELSE <<r>>,
     hooks0 |-> cx.hooks, states0 |-> cx.states]

NoRequest == [sid |-> 0, ty |-> "none"]

CtxIdle ==
    cx = [hooks |-> <<>>, states |-> EventCtxNew,
          look |-> [op |-> "idle", req |-> NoRequest, called |-> <<>>,
                    hooks0 |-> <<>>, states0 |-> EventCtxNew]]

CtxStart ==
    cx = [hooks |-> <<>>, states |-> EventCtxNew,
          look |-> [op |-> "none", req |-> NoRequest, called |-> <<>>,
                    hooks0 |-> <<>>, states0 |-> EventCtxNew]]

\* A Stateful product is built inside the innermost one: Hook::new with a
\* StateId of its own.
CxBuild ==
    /\ cx.look.op # "idle"
    /\ cx.states = EventCtxNew
    /\ Len(cx.hooks) <= MaxDepth
    /\ \E ty \in StateTypes :
        cx' = [hooks |-> Append(cx.hooks, [sid |-> Len(cx.hooks) + 1, ty |-> ty, val |-> InitState]),
               states |-> cx.states,
               look |-> Looked("build", NoRequest, None)]
    /\ UNCHANGED <<listVars, rtVars, stVars, evVars, brVars, dfVars, llVars, plVars, opVars, vrVars, svVars>>

\* Trigger for StatefulProduct: ctx.attach(&self.state), then the inner
\* product is triggered with the new context.
CxAttach ==
    /\ cx.look.op # "idle"
    /\ Len(cx.states) < Len(cx.hooks)
    /\ cx' = [cx EXCEPT !.states = EventCtxAttach(@, Len(@) + 1),
                        !.look = Looked("attach", NoRequest, None)]
    /\ UNCHANGED <<listVars, rtVars, stVars, evVars, brVars, dfVars, llVars, plVars, opVars, vrVars, svVars>>

\* A listener bound to the Hook of one of the Stateful products around it
\* is reached: it asks for that Hook's state and its callback writes it.
CxWith ==
    /\ cx.look.op # "idle"
    /\ cx.states # EventCtxNew
    /\ \E j \in 1..Len(cx.states), v \in Vals :
        LET req == [sid |-> cx.hooks[j].sid, ty |-> cx.hooks[j].ty]
            r == EventCtxWith(cx.hooks, cx.states, req.sid, req.ty)
        IN  cx' = [hooks |-> [cx.hooks EXCEPT ![r].val = v],
                   states |-> EventCtxNew,
                   look |-> Looked("with", req, r)]
    /\ UNCHANGED <<listVars, rtVars, stVars, evVars, brVars, dfVars, llVars, plVars, opVars, vrVars, svVars>>

\* with on a context no Hook was attached to.
CxWithNone ==
    /\ cx.look.op # "idle"
    /\ cx.states = EventCtxNew
    /\ \E sid \in 1..(MaxDepth + 1), ty \in StateTypes :
        LET r == EventCtxWith(cx.hooks, cx.states, sid, ty)
        IN  cx' = [hooks |-> IF r = None THEN cx.hooks ELSE [cx.hooks EXCEPT ![r].val = MaxVal],
                   states |-> EventCtxNew,
                   look |-> Looked("with_none", [sid |-> sid, ty |-> ty], r)]
    /\ UNCHANGED <<listVars, rtVars, stVars, evVars, brVars, dfVars, llVars, plVars, opVars, vrVars, svVars>>

ListInit == ListBuilt /\ RuntimeIdle /\ StateIdle /\ EventIdle /\ BranchIdle /\ DiffIdle /\ LinkedListIdle /\ CtxIdle /\ PlaceIdle /\ OptionIdle /\ VerIdle /\ ServeIdle

ListNext == UpdateUnbounded \/ UpdateVec \/ UpdateBounded \/ UpdateRendered

SpecList == ListInit /\ [][ListNext]_vars

RuntimeInit == ListIdle /\ RuntimeLinked /\ StateIdle /\ EventIdle /\ BranchIdle /\ DiffIdle /\ LinkedListIdle /\ CtxIdle /\ PlaceIdle /\ OptionIdle /\ VerIdle /\ ServeIdle

RuntimeNext ==
    \/ Start
    \/ StartReturn
    \/ SignalUpdate
    \/ MutatorReturn
    \/ Listener
    \/ CallbackReturn
    \/ RenderReturn
    \/ HookSignalUpdate
    \/ HookListener
    \/ LockedReturn

SpecRuntime == RuntimeInit /\ [][RuntimeNext]_vars

StateInit == ListIdle /\ RuntimeIdle /\ StateStart /\ EventIdle /\ BranchIdle /\ DiffIdle /\ LinkedListIdle /\ CtxIdle /\ PlaceIdle /\ OptionIdle /\ VerIdle /\ ServeIdle

StateNext ==
    \/ StBuild
    \/ StRender
    \/ StUnmount
    \/ StMount
    \/ StDrop
    \/ StSignalUpdate
    \/ StSignalUpdateSilent
    \/ StSignalSet
    \/ StRuntimeSignalUpdate
    \/ StListener

SpecState == StateInit /\ [][StateNext]_vars

EventInit == ListIdle /\ RuntimeIdle /\ StateIdle /\ EventIdle /\ BranchIdle /\ DiffIdle /\ LinkedListIdle /\ CtxIdle /\ PlaceIdle /\ OptionIdle /\ VerIdle /\ ServeIdle

EventNext == EvBuild \/ EvUpdate \/ EvDrop \/ EvDispatch \/ EvMount

SpecEvent == EventInit /\ [][EventNext]_vars

BranchInit == ListIdle /\ RuntimeIdle /\ StateIdle /\ EventIdle /\ BranchBuilt /\ DiffIdle /\ LinkedListIdle /\ CtxIdle /\ PlaceIdle /\ OptionIdle /\ VerIdle /\ ServeIdle

BranchNext == BrUpdate

SpecBranch == BranchInit /\ [][BranchNext]_vars

DiffInit ==
    /\ ListIdle /\ RuntimeIdle /\ StateIdle /\ EventIdle /\ BranchIdle
    /\ (DiffBuilt \/ MemoBuilt)
    /\ LinkedListIdle
    /\ CtxIdle
    /\ PlaceIdle
    /\ OptionIdle
    /\ VerIdle
    /\ ServeIdle

DiffNext == DfUpdate \/ DfDiff \/ DfDerefMut

SpecDiff == DiffInit /\ [][DiffNext]_vars

LinkedListInit ==
    /\ ListIdle /\ RuntimeIdle /\ StateIdle /\ EventIdle /\ BranchIdle
    /\ DiffIdle /\ LinkedListBuilt
    /\ CtxIdle
    /\ PlaceIdle
    /\ OptionIdle
    /\ VerIdle
    /\ ServeIdle

LinkedListNext == LlPush \/ LlIter \/ LlIterLimit

SpecLinkedList == LinkedListInit /\ [][LinkedListNext]_vars

CtxInit ==
    /\ ListIdle /\ RuntimeIdle /\ StateIdle /\ EventIdle /\ BranchIdle
    /\ DiffIdle /\ LinkedListIdle /\ CtxStart
    /\ PlaceIdle
    /\ OptionIdle
    /\ VerIdle
    /\ ServeIdle

CtxNext == CxBuild \/ CxAttach \/ CxWith \/ CxWithNone

SpecCtx == CtxInit /\ [][CtxNext]_vars

PlaceInit ==
    /\ ListIdle /\ RuntimeIdle /\ StateIdle /\ EventIdle /\ BranchIdle
    /\ DiffIdle /\ LinkedListIdle /\ CtxIdle /\ PlaceStart
    /\ OptionIdle
    /\ VerIdle
    /\ ServeIdle

PlaceNext ==
    \/ PlBuildByValue
    \/ PlBuildInPlace
    \/ PlUpdate
    \/ PlSignal
    \/ PlBind
    \/ PlBindAsync
    \/ PlUnmount
    \/ PlMount
    \/ PlDrop

SpecPlace == PlaceInit /\ [][PlaceNext]_vars

OptionInit ==
    /\ ListIdle /\ RuntimeIdle /\ StateIdle /\ EventIdle /\ BranchIdle
    /\ DiffIdle /\ LinkedListIdle /\ CtxIdle /\ PlaceIdle /\ OptionBuilt
    /\ VerIdle
    /\ ServeIdle

OptionNext == OpUpdate \/ OpTrigger

SpecOption == OptionInit /\ [][OptionNext]_vars

VerInit ==
    /\ ListIdle /\ RuntimeIdle /\ StateIdle /\ EventIdle /\ BranchIdle
    /\ DiffIdle /\ LinkedListIdle /\ CtxIdle /\ PlaceIdle /\ OptionIdle /\ VerBuilt
    /\ ServeIdle

VerNext == VrDeref \/ VrDerefMut \/ VrDiff

SpecVer == VerInit /\ [][VerNext]_vars

ServeInit ==
    /\ ListIdle /\ RuntimeIdle /\ StateIdle /\ EventIdle /\ BranchIdle
    /\ DiffIdle /\ LinkedListIdle /\ CtxIdle /\ PlaceIdle /\ OptionIdle /\ VerIdle
    /\ ServeStart

ServeNext ==
    \/ SvNotify
    \/ SvRecv
    \/ SvUpdates
    \/ SvDelay
    \/ SvSend
    \/ SvSkip
    \/ SvBuilderWait
    \/ SvBuilt
    \/ SvDone
    \/ SvCooldown

SpecServe == ServeInit /\ [][ServeNext]_vars

\* The routine is polled by the tokio runtime whenever one of its awaits is
\* ready, timers included, and the builder thread runs on its own: each of
\* their steps is taken if it stays possible.  The watcher notifies when
\* files change, which nothing makes happen.
ServeFair ==
    /\ WF_vars(SvRecv) /\ WF_vars(SvUpdates) /\ WF_vars(SvDelay) /\ WF_vars(SvSend)
    /\ WF_vars(SvSkip) /\ WF_vars(SvBuilderWait) /\ WF_vars(SvBuilt)
    /\ WF_vars(SvDone) /\ WF_vars(SvCooldown)

SpecServeFair == SpecServe /\ ServeFair

(***************************************************************************)
(* Properties of the list engine.                                          *)
(***************************************************************************)
N == Len(last.iter)

Updated == last.op = "update"

\* The children of the fragment are the nodes of the first `mounted` products.
Attached(list, mounted, fragment) ==
    /\ mounted <= Len(list)
    /\ fragment = [i \in 1..mounted |-> list[i].node]

\* C1: after an update of the unbounded list product with an iterator that
\* yields n views the mounted count is n, whatever was mounted or retained
\* before (both the Vec-backed products of list/unbounded.rs and list.rs).
C1_MountedIsYielded ==
    /\ (variant = "unbounded" /\ Updated) => ul.mounted = N
    /\ (variant = "vec" /\ Updated) => vl.mounted = N

\* An update that found retained surplus products and grew past the storage.
C1_Witness ==
    /\ variant = "unbounded" /\ Updated
    /\ last.mounted0 < last.len0 /\ last.len0 < N
    /\ ul.mounted = N

\* C2: after an update the fragment's children are exactly the nodes of the
\* products at positions 0..mounted-1, in order, and the product at position
\* i shows the i-th view the iterator yielded.
C2_ChildOrder ==
    /\ (variant = "unbounded" /\ Updated) =>
          /\ Attached(ul.list, ul.mounted, ul.fragment)
          /\ \A i \in 1..Min(ul.mounted, N) : ul.list[i].val = last.iter[i]
    /\ (variant = "vec" /\ Updated) =>
          /\ Attached(vl.list, vl.mounted, vl.fragment)
          /\ \A i \in 1..Min(vl.mounted, N) : vl.list[i].val = last.iter[i]

\* Surplus products were re-attached and new ones appended in one update.
C2_Witness ==
    /\ variant = "unbounded" /\ Updated
    /\ last.mounted0 < last.len0 /\ last.len0 < N
    /\ Count(ul.log, "build") > 0
    /\ Len(ul.fragment) = N
    /\ \E i \in 1..N : \E j \in 1..N : last.iter[i] # last.iter[j]

\* C3: mounted <= stored length after build and after every update, in the
\* unbounded and the bounded product, so no unchecked slice access is out of
\* bounds.
C3_MountedWithinStored ==
    /\ ul.mounted <= Len(ul.list) /\ ul.fault = "none"
    /\ vl.mounted <= Len(vl.list) /\ vl.fault = "none"
    /\ bl.mounted <= bl.list.len /\ bl.fault = "none"

\* A bounded product that retains an unmounted product after several updates.
C3_Witness ==
    /\ variant = "bounded" /\ Updated
    /\ 0 < bl.mounted /\ bl.mounted < bl.list.len

\* C4: an update never removes products from storage: the stored length does
\* not decrease and every stored product stays at its position; after a
\* shrink to n < m the products n..m-1 are unmounted and still stored.
C4_StorageRetained ==
    (variant = "unbounded" /\ Updated) =>
        /\ Len(ul.list) >= last.len0
        /\ \A i \in 1..last.len0 : ul.list[i].node = last.nodes0[i]
        /\ N < last.mounted0 =>
              /\ Len(ul.list) = last.len0
              /\ ul.mounted = N
              /\ \A i \in (N + 1)..last.mounted0 :
                    /\ Ev("unmount", i - 1) \in {ul.log[k] : k \in 1..Len(ul.log)}
                    /\ \A k \in 1..Len(ul.fragment) : ul.fragment[k] # ul.list[i].node

\* A shrink from m mounted products to n < m.
C4_Witness ==
    /\ variant = "unbounded" /\ Updated
    /\ 0 < N /\ N < last.mounted0
    /\ Len(ul.list) = last.len0
    /\ ul.mounted < Len(ul.list)

\* C5: a regrow into retained surplus positions updates each such product
\* with the new view before its node is re-attached and builds nothing
\* there; builds happen only at positions at or beyond the stored length.
C5_ReuseBeforeBuild ==
    (variant = "unbounded" /\ Updated) =>
        /\ \A i \in last.mounted0..(Min(last.len0, N) - 1) :
              /\ First(ul.log, "update", i) > 0
              /\ First(ul.log, "append", i) > First(ul.log, "update", i)
              /\ First(ul.log, "build", i) = 0
              /\ ul.list[i + 1].val = last.iter[i + 1]
              /\ ul.list[i + 1].node = last.nodes0[i + 1]
        /\ \A k \in 1..Len(ul.log) : ul.log[k][1] = "build" => ul.log[k][2] >= last.len0

\* A regrow that reuses a retained product and builds a new one.
C5_Witness ==
    /\ variant = "unbounded" /\ Updated
    /\ last.mounted0 < last.len0 /\ last.len0 < N
    /\ First(ul.log, "update", last.mounted0) > 0
    /\ First(ul.log, "build", last.len0) > 0

\* C6 as stated: an update from m mounted products to n views performs
\* exactly max(0, n-m) builds and max(0, m-n) unmount calls.
C6_Original ==
    (variant = "unbounded" /\ Updated) =>
        /\ Count(ul.log, "build") = Max(0, N - last.mounted0)
        /\ Count(ul.log, "unmount") = Max(0, last.mounted0 - N)

\* C6 as amended: an update from m mounted of L stored products to n views
\* performs exactly max(0, n-L) builds and max(0, m-n) unmount calls (the
\* builds are max(0, n-m) when no surplus product is retained, L = m).
C6_BuildsAndUnmounts ==
    (variant = "unbounded" /\ Updated) =>
        /\ Count(ul.log, "build") = Max(0, N - last.len0)
        /\ Count(ul.log, "unmount") = Max(0, last.mounted0 - N)
        /\ last.len0 = last.mounted0 =>
              Count(ul.log, "build") = Max(0, N - last.mounted0)

\* A regrow over a retained surplus product: fewer builds than n-m.
C6_Witness ==
    /\ variant = "unbounded" /\ Updated
    /\ last.mounted0 < last.len0 /\ last.len0 < N
    /\ Count(ul.log, "build") = N - last.len0

\* C7: push on a full BoundedVec returns false and changes nothing, so
\* len <= N always and N+k pushes leave len = N; no slot outside the array
\* is written.
C7_PushBeyondCapacity ==
    variant = "bounded" =>
        /\ bl.list.len <= Cap
        /\ DOMAIN bl.list.data = 1..Cap
        /\ bl.list.len = last.len0 + Count(bl.log, "push")
        /\ Count(bl.log, "drop") > 0 => bl.list.len = Cap
        /\ \A i \in 1..last.len0 : bl.list.data[i].node = last.nodes0[i]
        /\ (last.op = "build" /\ N > Cap) =>
              /\ bl.list.len = Cap
              /\ Count(bl.log, "drop") = N - Cap
        /\ bl.list.len = Cap =>
              \A v \in Vals :
                 BoundedVecPush(bl.list, ViewBuild(v, bl.nodes + 1))
                    = [vec |-> bl.list, ok |-> FALSE]

\* More views than capacity were pushed: the extra ones were dropped.
C7_Witness ==
    /\ variant = "bounded"
    /\ Count(bl.log, "drop") > 0
    /\ bl.list.len = Cap

\* C8: after a bounded list of capacity N is built or updated with n views
\* its mounted count is min(n, N).
C8_BoundedMounted ==
    variant = "bounded" => bl.mounted = Min(N, Cap)

\* An update past capacity of a product that had retained surplus.
C8_Witness ==
    /\ variant = "bounded" /\ Updated
    /\ last.mounted0 < last.len0
    /\ N > Cap
    /\ bl.mounted = Cap

(***************************************************************************)
(* Properties of the runtime.                                              *)
(***************************************************************************)

\* The last step asked for a render: update() was called.
UpdateRequested ==
    note.op \in {"mutator_return", "callback_return"} /\ note.then

C10_NestedUpdateRejected ==
    (note.op \in {"signal_update", "listener"} /\ Holders(note.stack0) # {}) =>
        /\ stack = note.stack0
        /\ slot = note.slot0
        /\ hooks = note.hooks0
        /\ product = note.product0

\* A state update came back asking for a render (either API generation).
RenderAsked ==
    note.op \in {"mutator_return", "callback_return", "locked_return"} /\ note.then

\* C11: when an outer update during which a nested state update was attempted
\* has completed, the slot holds again the runtime that the outer update took
\* and nothing else holds it; the next top-level state update that asks for a
\* render starts a render with the runtime of the slot, and when that render
\* returns the product tree shows the state and the runtime is back in the slot.
C11_RuntimeRestored ==
    /\ (/\ note.outer = "completed"
        /\ Len(note.stack0) = 1
        /\ note.op = "render_return" \/ (note.op = "locked_return" /\ ~note.then)) =>
          /\ stack = <<>>
          /\ slot = note.stack0[1].rt
          /\ slot \in 1..runtimes
    /\ (note.outer = "completed" /\ stack = <<>>) => slot \in 1..runtimes
    /\ (note.outer = "completed" /\ RenderAsked /\ Len(note.stack0) = 1) =>
          LET rt == IF gen = "hook" THEN note.stack0[1].rt ELSE note.slot0
          IN  /\ rt \in 1..runtimes
              /\ stack = <<Frame("render", rt, None)>>
    /\ (note.outer = "rerendered" /\ note.op = "render_return" /\ Len(note.stack0) = 1) =>
          /\ stack = <<>>
          /\ slot = note.stack0[1].rt
          /\ product[slot] = hooks[slot].val

\* The update that followed an outer update with a nested attempt has rendered.
C11_Witness ==
    /\ note.outer = "rerendered"
    /\ note.op = "render_return"
    /\ stack = <<>>
    /\ slot \in 1..runtimes
    /\ product[slot] = "changed"

\* C12: start creates the runtime once: over any sequence of start calls,
\* those made while an update holds the runtime included, at most one root
\* product is built and appended to the document body, and a start call made
\* after the first root was built pushes no build and leaves the slot alone.
C12_StartOnce ==
    /\ runtimes <= 1
    /\ Len(body) <= 1
    /\ (note.op = "start" /\ Len(note.product0) >= 1) =>
          /\ stack = note.stack0
          /\ slot = note.slot0

\* C13: whenever a bound listener callback or a Signal::update mutator comes
\* back with should-render, one render of a root product tree is started in
\* place of the returning call (and runs to its end before the caller gets
\* control back); when it comes back with stop, no render is started and the
\* product trees are left as they were.
C13_RenderOnVerdict ==
    /\ RenderAsked =>
          \E rt \in 1..runtimes :
              stack = Append(Pop(note.stack0), Frame("render", rt, None))
    /\ (note.op \in {"mutator_return", "callback_return", "locked_return"} /\ ~note.then) =>
          /\ stack = Pop(note.stack0)
          /\ product = note.product0

(***************************************************************************)
(* Properties of Stateful, Hook and Signal.                                *)
(***************************************************************************)
SignalOps == {"update", "update_silent", "set", "signal_update"}

\* C14: once the Hook that owns a state has been dropped, Signal::update,
\* Signal::update_silent and Signal::set on a Signal made from it do not call
\* the mutator, do not dereference the state pointer and ask for no render;
\* the dangling pointer is never used.
C14_DroppedSignalInert ==
    /\ sp.fault = "none"
    /\ (sl.op \in SignalOps /\ sl.sp0.phase = "dropped") =>
          /\ ~sl.ran
          /\ ~sl.deref
          /\ ~sl.render
          /\ sp = sl.sp0

\* Signal::set on a Signal whose Hook was dropped with a changed state.
C14_Witness ==
    /\ sl.op = "set"
    /\ sl.sp0.phase = "dropped"
    /\ sl.sp0.val # InitState
    /\ sl.sp0.strong = 0

\* C15: a Hook is destroyed when its owning product is unmounted: while a
\* Stateful product is unmounted (kept by a list as surplus) the Signals made
\* from its Hook fail the liveness check, and their updates call no mutator,
\* change no state and ask for no render.
C15_UnmountDestroysHook ==
    /\ sp.phase = "unmounted" => ~SignalLive(sp)
    /\ (sl.op \in SignalOps /\ sl.sp0.phase = "unmounted") =>
          /\ ~sl.ran
          /\ ~sl.render
          /\ sp.val = sl.sp0.val

\* C16: Stateful's update neither makes a new state nor replaces the one of
\* the Hook: the initial-state constructor has run exactly once for a built
\* product, a render leaves the state, the count of constructor runs and the
\* drop flag as they were, and the state value differs from what a step found
\* only when that step was a bound listener callback or a Signal mutator that
\* ran.
C16_StateKeptAcrossRenders ==
    /\ sp.inits = (IF sp.phase = "unbuilt" THEN 0 ELSE 1)
    /\ sl.op \in {"render", "mount"} =>
          /\ sp.val = sl.sp0.val
          /\ sp.inits = sl.sp0.inits
          /\ sp.strong = sl.sp0.strong
    /\ sp.val # sl.sp0.val =>
          /\ sl.op \in SignalOps \cup {"listener"}
          /\ sl.ran

\* A render of a product whose state had been changed.
C16_Witness ==
    /\ sl.op = "render"
    /\ sl.sp0.val # InitState
    /\ sp.val = sl.sp0.val
    /\ sp.inits = 1

(***************************************************************************)
(* Properties of the event listeners.                                      *)
(***************************************************************************)
\* The positions of the listeners whose id is e.
WithId(list, e) == {i \in 1..Len(list) : list[i].eid = e}

\* C17: a dispatch of the event id e calls the callback of the listener whose
\* id is e and of no other: at most one callback runs, the walk visits the
\* listeners in order up to the first match and no further, and when no
\* listener has the id e no callback runs and nothing is rendered again.
C17_DispatchById ==
    el.op = "dispatch" =>
        /\ Len(el.called) <= 1
        /\ \A k \in 1..Len(el.called) : listeners[el.called[k]].eid = el.eid
        /\ \A i \in WithId(listeners, el.eid) :
              /\ el.called = <<i>>
              /\ el.visited = [k \in 1..i |-> k]
        /\ WithId(listeners, el.eid) = {} =>
              /\ el.called = <<>>
              /\ el.visited = [k \in 1..Len(listeners) |-> k]
              /\ el.then = "none"
              /\ ~el.rerender

\* The event of the second of three listeners is dispatched.
C17_Witness ==
    /\ el.op = "dispatch"
    /\ Len(listeners) = 3
    /\ el.eid = listeners[2].eid
    /\ el.called = <<2>>
    /\ el.visited = <<1, 2>>

\* C18: a listener product gets its event id when it is built, the ids are
\* handed out in strictly increasing order, so that no two listener products
\* have the same id, and update leaves the id of a listener alone and
\* replaces its closure only.
C18_EventIds ==
    /\ \A i \in 1..Len(listeners) : listeners[i].eid < nextId
    /\ \A i \in 1..Len(listeners) : \A j \in 1..Len(listeners) :
          i < j => listeners[i].eid < listeners[j].eid
    /\ el.op = "build" =>
          /\ listeners[Len(listeners)].eid = el.next0
          /\ nextId > el.next0
          /\ \A i \in 1..Len(el.listeners0) : listeners[i] = el.listeners0[i]
    /\ el.op = "update" =>
          /\ Len(listeners) = Len(el.listeners0)
          /\ \A i \in 1..Len(listeners) : listeners[i].eid = el.listeners0[i].eid
          /\ nextId = el.next0

\* An update gave the second listener, built after a drop, another closure.
C18_Witness ==
    /\ el.op = "update"
    /\ Len(listeners) >= 2
    /\ listeners[2].closure # el.listeners0[2].closure
    /\ listeners[1].eid > 0

(***************************************************************************)
(* Properties of branching.                                                *)
(***************************************************************************)
\* The consecutive pairs of renders whose variants differ.
Switches(seen) == {i \in 1..(Len(seen) - 1) : seen[i] # seen[i + 1]}

\* C19: over a sequence of renders of a BranchK product the host node is
\* replaced (a new product built, replace_with called on the old one) once
\* for every consecutive pair of renders whose variants differ and never
\* between two renders of the same variant; A, B, A makes 2 replacements.
C19_ReplacedOnSwitch ==
    /\ bx.replaced = Cardinality(Switches(bx.seen))
    /\ bn = 1 + Cardinality(Switches(bx.seen))
    /\ bx.op = "update" =>
          /\ Count(bx.log, "replace_with") = (IF bx.view.tag # bx.br0.tag THEN 1 ELSE 0)
          /\ Count(bx.log, "build") = (IF bx.view.tag # bx.br0.tag THEN 1 ELSE 0)
          /\ (dom # bx.dom0) = (bx.view.tag # bx.br0.tag)

\* The renders A, B, A have replaced the host node twice.
C19_Witness ==
    /\ bx.seen = <<"A", "B", "A">>
    /\ bx.replaced = 2
    /\ dom = 3

\* C20: when a BranchK update has returned the product holds the variant of
\* the view just rendered; an update with the same variant calls the inner
\* view's update only (no build, no replacement, same node), and an update
\* with another variant has, in that one call, built the new product, put
\* its node in the place of the old one and changed the variant held.
C20_TagFollowsView ==
    /\ br.tag = bx.view.tag
    /\ br.val = bx.view.val
    /\ dom = br.node
    /\ (bx.op = "update" /\ bx.view.tag = bx.br0.tag) =>
          /\ bx.log = <<Ev("update", bx.br0.node)>>
          /\ br.node = bx.br0.node
          /\ dom = bx.dom0
    /\ (bx.op = "update" /\ bx.view.tag # bx.br0.tag) =>
          /\ bx.log = <<Ev("build", br.node), Ev("replace", br.node),
                        Ev("replace_with", bx.br0.node)>>
          /\ br.node # bx.br0.node
          /\ br.node = bn

\* An update has changed the variant after an update that kept it.
C20_Witness ==
    /\ bx.op = "update"
    /\ Len(bx.seen) = 3
    /\ bx.seen[1] = bx.seen[2]
    /\ bx.seen[2] # bx.seen[3]
    /\ br.tag = bx.seen[3]
    /\ dom = 2

\* The last update found a product of another variant than its view.
Switched == bx.op = "update" /\ bx.view.tag # bx.br0.tag

\* C21 as stated: on an update with another variant the old product is
\* unmounted, then the new product is built, then replace_with puts the new
\* node in the place of the old one, and then the variant is changed.
C21_Original ==
    Switched =>
        bx.log = <<Ev("unmount", bx.br0.node), Ev("build", br.node),
                   Ev("replace_with", bx.br0.node), Ev("replace", br.node)>>

\* C21: on an update with another variant the new product is built first,
\* then it is stored in place of the old one, which changes the variant, then
\* replace_with on the old product puts the new node in the place of the old
\* one; unmount is not called, and the new node is the one in the document.
C21_BuildSwitchSplice ==
    Switched =>
        /\ Count(bx.log, "unmount") = 0
        /\ First(bx.log, "build", br.node) = 1
        /\ First(bx.log, "replace", br.node) = 2
        /\ First(bx.log, "replace_with", bx.br0.node) = 3
        /\ Len(bx.log) = 3
        /\ dom = br.node
        /\ bx.dom0 = bx.br0.node

\* A variant change from A to B of a product that was built as A.
C21_Witness ==
    /\ Switched
    /\ bx.seen = <<"A", "B">>
    /\ bx.log[1] = Ev("build", 2)
    /\ dom = 2

\* Calls that mutate the host in a trace: a node's text put at build or set.
HostCalls(log) == Count(log, "put") + Count(log, "set_text")

Identical == dx.op = "update" /\ dx.view = dx.prev

C26_FenceGuardsChild ==
    dk = "fence" =>
        /\ dv.guard = IntoMemo(dx.view.guard)
        /\ dx.op = "build" => dx.log = <<Ev("render", dx.view.val), Ev("put", dx.view.val)>>
        /\ (dx.op = "update" /\ dx.view.guard # dx.prev.guard) =>
                /\ dx.log = <<Ev("render", dx.view.val), Ev("set_text", dx.view.val)>>
                /\ dv.text = dx.view.val
        /\ (dx.op = "update" /\ dx.view.guard = dx.prev.guard) =>
                /\ dx.log = <<>>
                /\ dv = dx.dv0

C26_Witness ==
    /\ dk = "fence" /\ dx.op = "update" /\ dx.n = 2
    /\ dx.view.guard = dx.prev.guard /\ dx.view.val # dx.prev.val
    /\ dv.text = dx.prev.val /\ dx.log = <<>>

\* C27: Static and Invar touch the host at build only: no update makes a host
\* call or a render, and the node keeps the text it was built with, even when
\* the wrapped value differs.
C27_StaticInvarFrozen ==
    dk \in {"static", "invar"} =>
        /\ dx.op = "build" => (HostCalls(dx.log) = 1 /\ dv.text = dx.view.val)
        /\ dx.op = "update" =>
                /\ dx.log = <<>>
                /\ dv = dx.dv0

C27_Witness ==
    /\ dk = "invar" /\ dx.op = "update"
    /\ dx.view.val # dv.text /\ dx.log = <<>>

\* Equality of two memos: of their contents for the boxed strings.
SameMemo(kind, a, b) == IF kind = "str" THEN a.str = b.str ELSE a = b

Diffed == dk \in MemoKinds /\ dx.op = "diff"

\* C23: for every Diff implementor with a memo, diff returns true exactly
\* when the memo differs from into_memo of the value, the memo equals
\* into_memo of the value afterwards, and diffing the same value twice in a
\* row returns false the second time.
C23_DiffAgreesWithMemo ==
    Diffed =>
        /\ dx.changed = ~SameMemo(dk, dx.memo0, MemoOf(dk, dx.value, dx.heap0))
        /\ SameMemo(dk, dv.memo, MemoOf(dk, dx.value, dx.heap0))
        /\ dx.value = dx.prev => ~dx.changed

\* C24: a string diff whose input has the memo's contents leaves the memo
\* untouched, the same allocation and no new one made; an input with other
\* contents replaces the memo by a newly allocated copy equal to the input.
C24_StrMemoKeptOrCopied ==
    (Diffed /\ dk = "str") =>
        /\ dx.value = dx.memo0.str =>
                (~dx.changed /\ dv.memo = dx.memo0 /\ dv.heap = dx.heap0)
        /\ dx.value # dx.memo0.str =>
                /\ dx.changed
                /\ dv.memo.str = dx.value
                /\ dv.memo.box > dx.heap0
                /\ dv.heap = dx.heap0 + 1

C24_Witness ==
    /\ Diffed /\ dk = "str" /\ dx.n = 2
    /\ dx.value = dx.prev /\ dx.memo0.box = 2 /\ dv.memo.box = 2

\* C25: after one or more mutable accesses to a Ver<T>, the memo a diff
\* obtains differs from every memo captured before those accesses.
C25_VerMemoFresh ==
    (Diffed /\ dk = "ver" /\ dx.k0 >= 1) => dv.memo \notin dx.caps0

\* C28: Signal::update_silent runs the mutator on the state of a live Hook
\* and asks for no render: nothing of the product but the state changes, and
\* with a dead Hook nothing changes at all.
C28_UpdateSilentNoRender ==
    sl.op = "update_silent" =>
        /\ ~sl.render
        /\ sl.ran = SignalLive(sl.sp0)
        /\ [sp EXCEPT !.val = sl.sp0.val] = sl.sp0
        /\ ~sl.ran => sp = sl.sp0

C28_Witness ==
    /\ sl.op = "update_silent" /\ sl.ran /\ ~sl.render
    /\ sp.phase = "mounted" /\ sp.val # sl.sp0.val

\* C29: a complete iteration of a LinkedList yields exactly the items pushed
\* so far, in the order they were pushed, len of them; this holds again for
\* the iterations after further pushes.  An iteration with a limit yields
\* the first min(len, limit) of them.
C29_IterYieldsPushed ==
    /\ lx.op = "iter" =>
            /\ ItemsAt(ll, lx.yield) = lx.pushed
            /\ Len(lx.yield) = ll.len
    /\ lx.op = "iter_limit" =>
            ItemsAt(ll, lx.yield) = SubSeq(lx.pushed, 1, Min(ll.len, lx.limit))

C29_Witness ==
    /\ lx.op = "iter" /\ ll.len = 3
    /\ ItemsAt(ll, lx.yield) = <<2, 1, 2>>
    /\ lx.seen0 = 2

\* C30: a push leaves every node already in the list at its address with
\* its item, and the list's order over them as it was; the one new node is
\* linked after them.
C30_PushKeepsNodes ==
    lx.op = "push" =>
        LET before == ListIterNext(lx.ll0, LinkedListIter(lx.ll0))
            after == ListIterNext(ll, LinkedListIter(ll))
        IN  /\ Len(ll.heap) = Len(lx.ll0.heap) + 1
            /\ \A a \in 1..Len(lx.ll0.heap) : ll.heap[a].item = lx.ll0.heap[a].item
            /\ SubSeq(after, 1, Len(before)) = before
            /\ Len(after) = Len(before) + 1
            /\ after[Len(after)] = Len(ll.heap)

C30_Witness ==
    /\ lx.op = "push" /\ lx.ll0.len = 2 /\ ll.len = 3
    /\ ListIterNext(ll, LinkedListIter(ll)) = <<1, 2, 3>>
    /\ ll.heap[1].item = 1 /\ ll.heap[3].item = 2

\* C31: after any build or update of a bounded list the nodes attached to
\* the fragment are exactly the nodes of the stored products at positions
\* 0..mounted-1, in that order; views yielded beyond the capacity leave no
\* node attached.
C31_FragmentIsMounted ==
    variant = "bounded" =>
        bl.fragment = [i \in 1..bl.mounted |-> bl.list.data[i].node]

\* C32: a dispatch through a list product considers the mounted products
\* only, those at positions below mounted: the walk visits no retained
\* unmounted product and calls no listener of one.
C32_DispatchMountedOnly ==
    el.op = "dispatch" =>
        /\ \A k \in 1..Len(el.visited) : el.visited[k] <= lmounted
        /\ \A k \in 1..Len(el.called) : el.called[k] <= lmounted

\* C33: RenderedList::update calls unmount on visible products only: with
\* n < visible items it unmounts exactly the products at n..visible-1, and
\* the hidden products past visible are not unmounted again; with
\* n >= visible items it unmounts nothing.
C33_UnmountVisibleOnly ==
    (variant = "rendered" /\ Updated) =>
        SelectSeq(rl.log, LAMBDA e : e[1] = "unmount")
            = [i \in 1..Max(0, last.mounted0 - N) |-> Ev("unmount", N + i - 1)]

\* The Hooks whose StateId and type are the ones asked for.
Requested(hs, req) == {i \in 1..Len(hs) : hs[i].sid = req.sid /\ hs[i].ty = req.ty}

\* C34: a state lookup during a dispatch calls the callback exactly once,
\* on the attached Hook whose StateId and type are the ones asked for, also
\* when the lookup falls through to the outermost attached Hook, and leaves
\* the other Hooks alone; with no Hook attached it answers None and calls
\* nothing.
C34_LookupFindsRequested ==
    /\ cx.look.op = "with" =>
            /\ Len(cx.look.called) = 1
            /\ cx.look.called[1] \in Requested(cx.look.hooks0, cx.look.req)
            /\ \E k \in 1..Len(cx.look.states0) : cx.look.states0[k] = cx.look.called[1]
            /\ \A i \in 1..Len(cx.hooks) :
                  i # cx.look.called[1] => cx.hooks[i] = cx.look.hooks0[i]
    /\ cx.look.op = "with_none" =>
            /\ cx.look.called = <<>>
            /\ cx.hooks = cx.look.hooks0

\* The listener asked for the outermost of three attached Hooks, past an
\* inner Hook of the same type.
C34_Witness ==
    /\ cx.look.op = "with"
    /\ cx.look.states0 = <<3, 2, 1>>
    /\ cx.look.called = <<1>>
    /\ cx.look.hooks0[2].ty = cx.look.hooks0[1].ty
    /\ cx.hooks[1].val # cx.look.hooks0[1].val

\* C35: whenever a pointer to the Hook is used, by a Signal whose liveness
\* check passed or by a listener that bind or bind_async made, it points to
\* the place where the Hook is: the Hook has not moved since the pointer was
\* taken.
C35_PointerReachesHook ==
    /\ hx.op = "signal" /\ hx.pass => hx.ptr = hx.place
    /\ hx.op \in {"bind", "bind_async"} => hx.ptr = hx.place
    /\ ~hk.stray

\* C36: however many Signals were made from a Hook, by once and by bind_async
\* events, the Hook holds one strong reference to its drop flag while it is
\* alive and none once it is dropped: a Signal passes the liveness check
\* exactly when its Hook was alive at that time.
C36_OneStrongReference ==
    /\ hk.phase = "alive" => hk.strong = 1
    /\ hk.phase = "dropped" => hk.strong = 0
    /\ hx.op = "signal" => hx.pass = hx.alive
    /\ hx.op = "bind_async" => Len(hk.signals) = hx.sig /\ hx.sig >= 2

\* The third Signal of a Hook, made by a bind_async event, passes the check.
C36_Witness ==
    /\ hx.op = "signal" /\ hx.sig = 3 /\ hx.pass
    /\ hk.how = "in_place" /\ Len(hk.signals) = 3

\* C37: an Option<T> and a Branch2<T, Empty> given the same renders, Some as
\* variant A and None as variant B, perform the same builds, inner updates
\* and host replacements and hold the same product over the same host; None
\* after None builds nothing and leaves product and host as they were.
C37_OptionIsBranch2 ==
    /\ ox.op \in {"build", "update"} =>
        /\ ov.o.log = ov.b.log
        /\ ov.o.product = ov.b.product
        /\ ov.o.dom = ov.b.dom
        /\ ov.o.nodes = ov.b.nodes
    /\ ox.op = "trigger" => ox.fired[1] = ox.fired[2]
    /\ ox.op = "update" /\ ~ox.view.some /\ ox.ov0.o.product.tag = "B" =>
        /\ ov.o.log = <<>>
        /\ [ov.o EXCEPT !.log = <<>>] = [ox.ov0.o EXCEPT !.log = <<>>]

\* None is rendered over the empty node that replaced a T product.
C37_Witness ==
    /\ ox.op = "update" /\ ~ox.view.some
    /\ ox.ov0.o.product.tag = "B" /\ ox.ov0.o.nodes >= 2
    /\ Count(ox.ov0.o.log, "replace_with") = 1

\* C38: a read-only access to a Ver<T> leaves its version counter and its
\* value as they were, and a diff of a Ver<T> that has had no mutable access
\* since the memo was taken reports no change and leaves the memo as it was.
C38_ReadOnlyKeepsVersion ==
    /\ vx.op = "deref" => vv.obj = vx.obj0 /\ vv.memo = vx.memo0
    /\ vx.op = "diff" /\ vx.k0 = 0 =>
        /\ ~vx.changed
        /\ vv.memo = vx.memo0

\* A diff after read-only accesses only, of a Ver<T> that was written to
\* before the memo was taken.
C38_Witness ==
    /\ vx.op = "diff" /\ vx.k0 = 0 /\ vx.r0
    /\ vv.obj.ver >= 1 /\ vx.n >= 2

\* C39: when delay_after_update goes by with no further notification after
\* one that the routine received while no build was running or cooling down,
\* the routine leaves the gathering loop and a BuildEvent with the paths of
\* that notification is on its way to the builder.
C39_QuietLeadsToBuild ==
    sx.op = "delay" =>
        /\ sv.pc \in {"send", "wait"}
        /\ sx.paths \subseteq sv.paths

\* C39 as a liveness property: the paths the routine has gathered are
\* eventually being built, unless a further notification comes first.
C39_EventuallyRebuilt ==
    \A q \in Paths :
        (sv.pc = "collect" /\ q \in sv.paths) ~>
            \/ sv.builder = "building" /\ q \in sv.building
            \/ sx.op = "notify"

====
